---- MODULE Spec2Model ----
(***************************************************************************)
(* The arbitrage execution saga of backend/arb_executor.py: execute_arb    *)
(* (the single-flight lock) and _execute_arb_inner (kill switch, lay-venue *)
(* revalidation, back-venue placement info, margin check, stake sizing,    *)
(* back placement, confirmation poll, lay placement), with the execution   *)
(* log (_log_execution) and the operator notifications (_send_msg).        *)
(* Specification Spec, and SpecFair (each handler thread keeps running).   *)
(*                                                                         *)
(* The opportunity tracker of backend/arb_scanner.py: scan_arbs,           *)
(* run_arb_scan with the arb_log table, and the daily report.              *)
(* Specifications SpecScan (every feed answer and write failure) and       *)
(* SpecDaily (every clock step and report failure).                        *)
(*                                                                         *)
(* The price functions calc_margin and calc_lay_stake on their own:        *)
(* specification SpecCalc. scan_arbs on its own: specification SpecFeed.   *)
(*                                                                         *)
(* The alert dedup of backend/steamer_detector.py (_maybe_alert):          *)
(* specification SpecSteam. The execute button of                          *)
(* backend/telegram_callback.py (register_pending_arb, _cleanup_expired,   *)
(* _handle_callback_query): specification SpecTg.                          *)
(*                                                                         *)
(* Python floats are modelled as exact rationals <<n, d>> in lowest terms, *)
(* d > 0; the chosen inputs stay away from float rounding boundaries.      *)
(***************************************************************************)
EXTENDS Integers, Sequences, FiniteSets, TLC

\* ------------------------------------------------------------------ bounds
NumThreads == 2
MaxRows == 1
MaxCycles == 3
MaxSteamCalls == 3
MaxEvents == 3

Threads == 1..NumThreads

\* --------------------------------------------------------------- rationals
RECURSIVE GCD(_, _)
GCD(a, b) == IF b = 0 THEN a ELSE GCD(b, a % b)

Abs(x) == IF x < 0 THEN -x ELSE x

Rat(n, d) ==
    LET g == GCD(Abs(n), Abs(d))
        s == IF d < 0 THEN -1 ELSE 1
    IN  <<(s * n) \div g, (s * d) \div g>>

Zero == <<0, 1>>
RAdd(a, b) == Rat(a[1] * b[2] + b[1] * a[2], a[2] * b[2])
RSub(a, b) == Rat(a[1] * b[2] - b[1] * a[2], a[2] * b[2])
RMul(a, b) == Rat(a[1] * b[1], a[2] * b[2])
RDiv(a, b) == Rat(a[1] * b[2], a[2] * b[1])
RLt(a, b) == a[1] * b[2] < b[1] * a[2]
RLe(a, b) == a[1] * b[2] <= b[1] * a[2]
RMax(a, b) == IF RLt(a, b) THEN b ELSE a
RMin(a, b) == IF RLt(b, a) THEN b ELSE a

\* round(x, 2): nearest cent, ties to the even cent
Round2(a) ==
    LET num == a[1] * 100
        q == num \div a[2]
        r2 == 2 * (num % a[2])
    IN  IF r2 < a[2] THEN Rat(q, 100)
        ELSE IF r2 > a[2] THEN Rat(q + 1, 100)
        ELSE IF q % 2 = 0 THEN Rat(q, 100) ELSE Rat(q + 1, 100)

\* ----------------------------------------------------------- configuration
EXEC_BACK_STAKE == Rat(5, 1)
EXEC_MIN_MARGIN == Rat(5, 1000)
EXEC_SLIPPAGE == Rat(5, 1000)
EXEC_VERIFY_TIMEOUT == 3
BETFAIR_COMMISSION == Rat(2, 100)
One == Rat(1, 1)
PRICE_FLOOR == Rat(101, 100)
DEPTH_BUFFER == Rat(95, 100)
MAX_AMOUNT_DEFAULT == Rat(99999, 1)

\* time is counted in ticks of the poll sleep, time.sleep(0.5)
TicksPerSecond == 2
VerifyTimeoutTicks == EXEC_VERIFY_TIMEOUT * TicksPerSecond

\* ------------------------------------------------------------ pure helpers
_calc_margin(p_b, p_l) ==
    RDiv(RSub(RMul(RSub(One, BETFAIR_COMMISSION), RSub(p_b, One)), RSub(p_l, One)), p_b)

_calc_lay_stake(back_stake, p_b, p_l) ==
    RDiv(RMul(back_stake, p_b), RSub(p_l, RMul(BETFAIR_COMMISSION, RSub(p_l, One))))

\* ------------------------------------------------------------------- state
VARIABLES
    EXEC_ENABLED,   \* the kill switch, read from the environment at import
    _exec_lock,     \* TRUE while the threading.Lock is held
    pc,             \* each thread's position in execute_arb
    frame,          \* each thread's locals of the current invocation
    executions,     \* rows of the executions table, in insertion order
    \* arb_scanner.py
    _open_arbs,         \* dict: market_feed id -> the open opportunity
    _last_daily_report, \* time of the last daily report, 0 at process start
    arb_log,            \* rows of the arb_log table, in insertion order
    clock,              \* wall-clock time, in minutes since the epoch
    cycle,              \* what the latest run_arb_scan call met and did
    reports,            \* the report dates of the daily reports sent so far
    \* the pure price functions
    calc,               \* a price pair, a stake, and what the functions return
    feed,               \* a market_feed answer and what scan_arbs returns for it
    \* steamer_detector.py
    _last_alerted,      \* dict: (row_id, source) -> time and shift of the last alert
    steam,              \* what the latest _maybe_alert call met and did
    \* telegram_callback.py
    _pending_arbs,      \* dict: arb_id -> context and time of registration
    tg                  \* the clock, the execute_arb calls made, the latest event

sagaVars == <<EXEC_ENABLED, _exec_lock, pc, frame, executions>>
scanVars == <<_open_arbs, _last_daily_report, arb_log, clock, cycle, reports>>
calcVars == <<calc, feed>>
botVars == <<_last_alerted, steam, _pending_arbs, tg>>
vars == <<sagaVars, scanVars, calcVars, botVars>>

Unset == <<0, 0>>
None == "None"

\* the fields _log_execution takes, with its keyword defaults
DefaultRow ==
    [status |-> "executed", ao_ref |-> None, bf_bet_id |-> None,
     ao_stake |-> Zero, ao_price |-> Zero, bf_lay_stake |-> Zero,
     bf_lay_price |-> Zero, margin_pct |-> Zero, expected_profit |-> Zero,
     error_message |-> None]

\* what a notification text shows, in the same fields (Unset: not shown)
NoInfo ==
    [status |-> "", ao_ref |-> "", bf_bet_id |-> "",
     ao_stake |-> Unset, ao_price |-> Unset, bf_lay_stake |-> Unset,
     bf_lay_price |-> Unset, margin_pct |-> Unset, expected_profit |-> Unset,
     error_message |-> ""]

Msg(tag, info) == [ev |-> "msg", tag |-> tag, row |-> info]
LogEv(row) == [ev |-> "log", tag |-> row.status, row |-> row]
Call(name, info) == [ev |-> "call", tag |-> name, row |-> info]

Pct(m) == RMul(m, Rat(100, 1))

\* the order of the two calls on a path that ends the saga
NotifyThenLog_mut_swapped(msg, row) == <<LogEv(row), msg>>
NotifyThenLog(msg, row) == <<msg, LogEv(row)>>
LogThenNotify_mut_silent(row, msg) == <<LogEv(row)>>
LogThenNotify(row, msg) == <<LogEv(row), msg>>

\* the INSERT of _log_execution; a failed write is caught and only logged
_log_execution_mut_twice(table, row, ok) ==
    IF ok THEN table \o <<row, row>> ELSE table
_log_execution(table, row, ok) ==
    IF ok THEN Append(table, row) ELSE table

\* what list_market_book answers: it raises, or returns no book, or a book
OpenBook(offers) ==
    [raises |-> FALSE, found |-> TRUE, inplay |-> FALSE, status |-> "OPEN",
     runner |-> "ACTIVE", available_to_lay |-> offers]
NoBook == [OpenBook(<<>>) EXCEPT !.status = "not asked"]

\* the locals of one invocation; arrived_locked, written, book, placed,
\* answer and reported_stake record what the invocation met: the lock's state
\* on entry, the rows it inserted, the book of step 1, the kind of
\* place_bet's answer, the kind of the last poll's answer, the stake the
\* confirming poll reported (Zero: none)
NilFrame ==
    [arrived_locked |-> FALSE, written |-> 0,
     ctx |-> [pin_back |-> Unset, bf_lay |-> Unset], book |-> NoBook,
     live_bf_lay |-> Unset, bf_lay_size |-> Unset,
     live_pin_price |-> Unset, ao_min_amount |-> Unset, ao_max_amount |-> Unset,
     margin |-> Unset, ao_stake |-> Unset, needed_lay_stake |-> Unset,
     expected_profit |-> Unset, placed |-> "", bet_ref |-> None,
     ao_confirmed |-> FALSE, confirmed_stake |-> Unset,
     elapsed |-> 0, answer |-> "", reported_stake |-> Zero,
     final_lay_stake |-> Unset, bf_bet_id |-> None,
     trace |-> <<>>]

\* ------------------------------------------------------------------ inputs
Contexts ==
    {[pin_back |-> Rat(215, 100), bf_lay |-> Rat(204, 100)]}

SagaInit ==
    /\ EXEC_ENABLED \in BOOLEAN
    /\ _exec_lock = FALSE
    /\ pc = [t \in Threads |-> "idle"]
    /\ frame = [t \in Threads |-> NilFrame]
    /\ executions = <<>>

\* --------------------------------------------------------------- the lock
\* _exec_lock.acquire(blocking=False): succeeds iff the lock is free
TryAcquire_mut_always(lock) == TRUE
TryAcquire(lock) == ~lock

\* the blocking argument of the acquire
AcquireBlocking_mut == TRUE
AcquireBlocking == FALSE

\* execute_arb, up to the call of _execute_arb_inner
ExecuteArb(t) ==
    /\ pc[t] \in {"idle", "waiting"}
    /\ \E c \in Contexts :
        IF TryAcquire(_exec_lock)
        THEN /\ Len(executions) < MaxRows
             /\ _exec_lock' = TRUE
             /\ pc' = [pc EXCEPT ![t] = "kill_switch"]
             /\ frame' = [frame EXCEPT ![t] =
                    IF pc[t] = "waiting" THEN @
                    ELSE [NilFrame EXCEPT !.ctx = c, !.arrived_locked = _exec_lock]]
        ELSE IF AcquireBlocking
        THEN /\ pc[t] = "idle"
             /\ pc' = [pc EXCEPT ![t] = "waiting"]
             /\ frame' = [frame EXCEPT ![t] =
                    [NilFrame EXCEPT !.ctx = c, !.arrived_locked = TRUE]]
             /\ UNCHANGED _exec_lock
        ELSE /\ pc[t] = "idle"
             /\ pc' = [pc EXCEPT ![t] = "busy"]
             /\ frame' = [frame EXCEPT ![t] =
                    [NilFrame EXCEPT !.ctx = c, !.arrived_locked = TRUE,
                                     !.trace = <<Msg("busy", NoInfo)>>]]
             /\ UNCHANGED _exec_lock
    /\ UNCHANGED <<EXEC_ENABLED, executions>>
    /\ UNCHANGED <<scanVars, calcVars, botVars>>

\* the finally clause of execute_arb, and the return: _execute_arb_inner has
\* ended, the lock is released and the invocation's locals are gone
Release(t) ==
    /\ pc[t] = "release"
    /\ _exec_lock' = FALSE
    /\ pc' = [pc EXCEPT ![t] = "idle"]
    /\ frame' = [frame EXCEPT ![t] = NilFrame]
    /\ UNCHANGED <<EXEC_ENABLED, executions>>
    /\ UNCHANGED <<scanVars, calcVars, botVars>>

\* the rejected invocation releasing the lock it never took
Return_mut_release(t) ==
    /\ pc[t] = "busy"
    /\ pc' = [pc EXCEPT ![t] = "idle"]
    /\ frame' = [frame EXCEPT ![t] = NilFrame]
    /\ _exec_lock' = FALSE
    /\ UNCHANGED <<EXEC_ENABLED, executions>>
    /\ UNCHANGED <<scanVars, calcVars, botVars>>

\* the return of an invocation that was rejected as busy
Return(t) ==
    /\ pc[t] = "busy"
    /\ pc' = [pc EXCEPT ![t] = "idle"]
    /\ frame' = [frame EXCEPT ![t] = NilFrame]
    /\ UNCHANGED <<EXEC_ENABLED, _exec_lock, executions>>
    /\ UNCHANGED <<scanVars, calcVars, botVars>>

\* a path of _execute_arb_inner that ends the saga: the events in the order
\* the code makes the calls, the row handed to _log_execution, and whether
\* the INSERT succeeded
Finish(t, f, events, row, ok) ==
    /\ executions' = _log_execution(executions, row, ok)
    /\ frame' = [frame EXCEPT ![t] =
          [f EXCEPT !.trace = @ \o events,
                    !.written = @ + Len(executions') - Len(executions)]]
    /\ pc' = [pc EXCEPT ![t] = "release"]

\* the paths that send the notification and then log, and return
Abort(t, f, pre, msg, row) ==
    \E ok \in BOOLEAN : Finish(t, f, pre \o NotifyThenLog(msg, row), row, ok)

\* a path that goes on to the next step
Goto(t, f, events, next) ==
    /\ frame' = [frame EXCEPT ![t] = [f EXCEPT !.trace = @ \o events]]
    /\ executions' = executions
    /\ pc' = [pc EXCEPT ![t] = next]

Failed(error) == [DefaultRow EXCEPT !.status = "failed", !.error_message = error]

\* ------------------------------------------------------------ kill switch
\* the test `if not EXEC_ENABLED` that guards every venue call
KillSwitchOff_mut_ignored(enabled) == FALSE
KillSwitchOff(enabled) == ~enabled

KillSwitch(t) ==
    /\ pc[t] = "kill_switch"
    /\ LET f == frame[t] IN
       IF KillSwitchOff(EXEC_ENABLED)
       THEN Abort(t, f, <<>>,
                Msg("dry_run", [NoInfo EXCEPT !.ao_price = f.ctx.pin_back,
                                              !.bf_lay_price = f.ctx.bf_lay,
                                              !.ao_stake = EXEC_BACK_STAKE]),
                [DefaultRow EXCEPT !.status = "dry_run",
                                   !.ao_price = f.ctx.pin_back,
                                   !.bf_lay_price = f.ctx.bf_lay])
       ELSE Goto(t, f, <<Msg("step1", NoInfo)>>, "step1")
    /\ UNCHANGED <<EXEC_ENABLED, _exec_lock>>
    /\ UNCHANGED <<scanVars, calcVars, botVars>>

\* ------------------------------------------- step 1: re-validate BF lay
LayPrices == {Rat(200, 100), Rat(206, 100), Rat(220, 100)}
LaySizes == {Rat(3, 1), Rat(100, 1)}
LayOffers ==
    {<<>>} \cup {<<[price |-> p, size |-> s]>> : p \in LayPrices, s \in LaySizes}

MarketBooks ==
    {OpenBook(o) : o \in LayOffers}
    \cup {[OpenBook(o) EXCEPT !.raises = TRUE] : o \in LayOffers \ {<<>>}}
    \cup {[OpenBook(o) EXCEPT !.found = FALSE] : o \in {<<>>}}
    \cup {[OpenBook(o) EXCEPT !.inplay = TRUE, !.status = st] :
               o \in LayOffers \ {<<>>}, st \in {"OPEN", "SUSPENDED"}}
    \cup {[OpenBook(o) EXCEPT !.status = "SUSPENDED"] : o \in LayOffers}
    \cup {[OpenBook(o) EXCEPT !.runner = r] :
               o \in LayOffers \ {<<>>}, r \in {"missing", "REMOVED"}}

BookInPlay_mut_ignored(book) == FALSE
BookInPlay(book) == book.inplay

Step1(t) ==
    /\ pc[t] = "step1"
    /\ \E book \in MarketBooks :
       LET f == [frame[t] EXCEPT !.book = book]
           call == <<Call("list_market_book", NoInfo)>>
       IN  IF book.raises
           THEN Abort(t, f, call, Msg("bf_error", NoInfo), Failed("BF error"))
           ELSE IF ~book.found
           THEN Abort(t, f, call, Msg("bf_not_found", NoInfo), Failed("BF market not found"))
           ELSE IF BookInPlay(book)
           THEN Abort(t, f, call, Msg("in_play", NoInfo), Failed("Market now in-play"))
           ELSE IF book.status # "OPEN"
           THEN Abort(t, f, call, Msg("bf_status", NoInfo), Failed("Market status"))
           ELSE IF book.runner # "ACTIVE"
           THEN Abort(t, f, call, Msg("runner_inactive", NoInfo), Failed("Runner not active"))
           ELSE IF book.available_to_lay = <<>>
           THEN Abort(t, f, call, Msg("no_lay", NoInfo), Failed("No lay available"))
           ELSE Goto(t, [f EXCEPT !.live_bf_lay = book.available_to_lay[1].price,
                                  !.bf_lay_size = book.available_to_lay[1].size],
                     call \o <<Msg("step2", NoInfo)>>, "step2")
    /\ UNCHANGED <<EXEC_ENABLED, _exec_lock>>
    /\ UNCHANGED <<scanVars, calcVars, botVars>>

\* ------------------------------------------ step 2: AO GetPlacementInfo
\* Odds / MinimumAmount / MaximumAmount after float(... or default)
PinPrices == {PRICE_FLOOR, Rat(210, 100)}
StakeLimits ==
    {[MinimumAmount |-> Zero, MaximumAmount |-> MAX_AMOUNT_DEFAULT],
     [MinimumAmount |-> Rat(5, 1), MaximumAmount |-> MAX_AMOUNT_DEFAULT],
     [MinimumAmount |-> Rat(1, 1), MaximumAmount |-> Rat(4, 1)]}
PlacementInfos ==
    [kind : {"ok"}, Odds : PinPrices, limits : StakeLimits]
    \cup [kind : {"no_client", "raise", "none", "code_fail"},
          Odds : {Zero}, limits : {[MinimumAmount |-> Zero, MaximumAmount |-> Zero]}]

Step2(t) ==
    /\ pc[t] = "step2"
    /\ \E info \in PlacementInfos :
       LET f == frame[t]
           call == <<Call("get_placement_info", NoInfo)>>
       IN  IF info.kind = "no_client"
           THEN Abort(t, f, <<>>, Msg("ao_unavailable", NoInfo), Failed("AO client unavailable"))
           ELSE IF info.kind = "raise"
           THEN Abort(t, f, call, Msg("ao_info_error", NoInfo), Failed("AO placement error"))
           ELSE IF info.kind \in {"none", "code_fail"}
           THEN Abort(t, f, call, Msg("ao_info_failed", NoInfo), Failed("AO placement info failed"))
           ELSE IF RLe(info.Odds, PRICE_FLOOR)
           THEN Abort(t, f, call, Msg("ao_price_invalid", NoInfo), Failed("AO price invalid"))
           ELSE Goto(t, [f EXCEPT !.live_pin_price = info.Odds,
                                  !.ao_min_amount = info.limits.MinimumAmount,
                                  !.ao_max_amount = info.limits.MaximumAmount],
                     call, "step3")
    /\ UNCHANGED <<EXEC_ENABLED, _exec_lock>>
    /\ UNCHANGED <<scanVars, calcVars, botVars>>

\* --------------------------------------------------- step 3: margin check
\* the prices the margin is recomputed from
MarginPrices_mut_ctx(f) == <<f.ctx.pin_back, f.ctx.bf_lay>>
MarginPrices(f) == <<f.live_pin_price, f.live_bf_lay>>

MarginTooThin_mut_never(margin) == FALSE
MarginTooThin(margin) == RLt(margin, RAdd(EXEC_MIN_MARGIN, EXEC_SLIPPAGE))

Step3(t) ==
    /\ pc[t] = "step3"
    /\ LET f == frame[t]
           margin == _calc_margin(MarginPrices(f)[1], MarginPrices(f)[2])
           g == [f EXCEPT !.margin = margin]
       IN  IF MarginTooThin(margin)
           THEN Abort(t, g, <<>>,
                    Msg("margin_thin", [NoInfo EXCEPT !.margin_pct = Pct(margin),
                                                      !.ao_price = f.live_pin_price,
                                                      !.bf_lay_price = f.live_bf_lay]),
                    [DefaultRow EXCEPT !.status = "margin_gone",
                                       !.ao_price = f.live_pin_price,
                                       !.bf_lay_price = f.live_bf_lay,
                                       !.margin_pct = Pct(margin)])
           ELSE Goto(t, g, <<>>, "step4")
    /\ UNCHANGED <<EXEC_ENABLED, _exec_lock>>
    /\ UNCHANGED <<scanVars, calcVars, botVars>>

\* --------------------------------------------------- step 4: adjust stake
ClampStake_mut_target(min_amount, max_amount) == EXEC_BACK_STAKE
ClampStake(min_amount, max_amount) ==
    RMin(RMax(EXEC_BACK_STAKE, min_amount), max_amount)

\* the reduction to the BF depth, with the 5% buffer and the re-clamp
ReduceStake(ao_stake, needed_lay_stake, bf_lay_size, min_amount) ==
    LET reduction_ratio == RDiv(bf_lay_size, needed_lay_stake)
    IN  RMax(RMul(RMul(ao_stake, reduction_ratio), DEPTH_BUFFER), min_amount)

Step4(t) ==
    /\ pc[t] = "step4"
    /\ LET f == frame[t]
           clamped == ClampStake(f.ao_min_amount, f.ao_max_amount)
           needed == _calc_lay_stake(clamped, f.live_pin_price, f.live_bf_lay)
           ao_stake == IF RLt(f.bf_lay_size, needed)
                       THEN ReduceStake(clamped, needed, f.bf_lay_size, f.ao_min_amount)
                       ELSE clamped
           needed_lay_stake == _calc_lay_stake(ao_stake, f.live_pin_price, f.live_bf_lay)
           expected_profit == RMul(f.margin, ao_stake)
       IN  Goto(t, [f EXCEPT !.ao_stake = ao_stake,
                             !.needed_lay_stake = needed_lay_stake,
                             !.expected_profit = expected_profit],
                <<Msg("margin_ok", [NoInfo EXCEPT !.margin_pct = Pct(f.margin),
                                                  !.ao_price = f.live_pin_price,
                                                  !.bf_lay_price = f.live_bf_lay,
                                                  !.ao_stake = ao_stake,
                                                  !.bf_lay_stake = needed_lay_stake,
                                                  !.expected_profit = expected_profit]),
                  Msg("step5", NoInfo)>>,
                "step5")
    /\ UNCHANGED <<EXEC_ENABLED, _exec_lock>>
    /\ UNCHANGED <<scanVars, calcVars, botVars>>

\* --------------------------------------------------- step 5: AO PlaceBet
BetRefs == {"REF1"}
PlaceResults == {"raise", "none", "code_fail", "ok_no_ref", "ok"}

\* Code == 0 and what the answer carries as the bet's reference
PlaceKind(res) ==
    CASE res = "raise" -> "raised"
      [] res \in {"none", "code_fail"} -> "refused"
      [] res = "ok_no_ref" -> "accepted_no_ref"
      [] OTHER -> "accepted"

\* Result.BetPlacementReference or Result.PlaceBetId
BetRefOf_mut_placeholder(res, ref) == ref
BetRefOf(res, ref) == IF res = "ok" THEN ref ELSE None

Step5(t) ==
    /\ pc[t] = "step5"
    /\ \E res \in PlaceResults, ref \in BetRefs :
       LET f == [frame[t] EXCEPT !.placed = PlaceKind(res)]
           call == <<Call("place_bet", [NoInfo EXCEPT !.ao_stake = f.ao_stake,
                                                      !.ao_price = f.live_pin_price])>>
           row(status, error) ==
               [DefaultRow EXCEPT !.status = status, !.ao_stake = f.ao_stake,
                                  !.ao_price = f.live_pin_price,
                                  !.error_message = error]
           bet_ref == BetRefOf(res, ref)
       IN  IF res = "raise"
           THEN Abort(t, f, call, Msg("ao_place_error", NoInfo),
                      row("ao_error", "AO place error"))
           ELSE IF res \in {"none", "code_fail"}
           THEN Abort(t, f, call, Msg("ao_place_failed", NoInfo),
                      row("ao_failed", "AO place bet failed"))
           ELSE IF bet_ref = None
           THEN Abort(t, f, call, Msg("check_manually_no_ref", NoInfo),
                      row("ao_no_ref", "No bet reference returned"))
           ELSE Goto(t, [f EXCEPT !.bet_ref = bet_ref, !.ao_confirmed = FALSE,
                                  !.confirmed_stake = f.ao_stake, !.elapsed = 0],
                     call \o <<Msg("step6", [NoInfo EXCEPT !.ao_ref = bet_ref])>>,
                     "verify")
    /\ UNCHANGED <<EXEC_ENABLED, _exec_lock>>
    /\ UNCHANGED <<scanVars, calcVars, botVars>>

\* -------------------------------------------------- step 6: verify AO bet
\* str(bet.get('Status') or '').lower(), on the statuses the venue may send
RawStatuses ==
    {"Confirmed", "accepted", "RUNNING", "Rejected", "cancelled", "VOID", "Pending", ""}
Lower(raw) ==
    CASE raw = "Confirmed" -> "confirmed"
      [] raw = "RUNNING" -> "running"
      [] raw = "Rejected" -> "rejected"
      [] raw = "VOID" -> "void"
      [] raw = "Pending" -> "pending"
      [] OTHER -> raw

\* the three kinds of answer of saga phase 7
AnswerKind(status) ==
    IF status \in {"confirmed", "accepted", "running"} THEN "confirmed"
    ELSE IF status \in {"rejected", "cancelled", "void"} THEN "rejected"
    ELSE "pending"

IsConfirmed_mut_pending(status) ==
    status \in {"confirmed", "accepted", "running", "pending"}
IsConfirmed(status) == status \in {"confirmed", "accepted", "running"}
IsRejected_mut_unknown(status) == status \notin {"confirmed", "accepted", "running"}
IsRejected(status) == status \in {"rejected", "cancelled", "void"}

\* what get_bet_by_reference answers
PollResults ==
    [kind : {"bet"}, Status : RawStatuses, Stake : {Zero, Rat(4, 1)}]
    \cup [kind : {"raise", "code_fail", "no_bets"}, Status : {""}, Stake : {Zero}]

\* the time one turn of the loop takes, in ticks: time.sleep(0.5) after a
\* prompt answer, or a call that hangs for as long as the whole timeout
PollTicks == {1, VerifyTimeoutTicks}

\* the condition of the while loop
VerifyLoopContinues_mut_forever(elapsed) == TRUE
VerifyLoopContinues(elapsed) == elapsed < VerifyTimeoutTicks

\* float(bet.get('Stake') or bet.get('ConfirmedStake') or ao_stake)
ConfirmedStake_mut_requested(reported, ao_stake) == ao_stake
ConfirmedStake(reported, ao_stake) == IF reported # Zero THEN reported ELSE ao_stake

Step6Poll(t) ==
    /\ pc[t] = "verify"
    /\ VerifyLoopContinues(frame[t].elapsed)
    /\ \E res \in PollResults, d \in PollTicks :
       LET status == IF res.kind = "bet" THEN Lower(res.Status) ELSE ""
           f == [frame[t] EXCEPT !.answer = AnswerKind(status)]
           call == <<Call("get_bet_by_reference", [NoInfo EXCEPT !.ao_ref = f.bet_ref])>>
       IN  IF res.kind = "bet" /\ IsConfirmed(status)
           THEN LET confirmed_stake == ConfirmedStake(res.Stake, f.ao_stake)
                IN  Goto(t, [f EXCEPT !.ao_confirmed = TRUE,
                                      !.reported_stake = res.Stake,
                                      !.confirmed_stake = confirmed_stake],
                         call \o <<Msg("ao_confirmed",
                                       [NoInfo EXCEPT !.ao_stake = confirmed_stake]),
                                   Msg("step7", NoInfo)>>,
                         "step7")
           ELSE IF res.kind = "bet" /\ IsRejected(status)
           THEN Abort(t, f, call, Msg("ao_" \o status, NoInfo),
                      [DefaultRow EXCEPT !.status = "ao_" \o status,
                                         !.ao_ref = f.bet_ref,
                                         !.ao_stake = f.ao_stake,
                                         !.ao_price = f.live_pin_price,
                                         !.error_message = "AO bet " \o status])
           ELSE Goto(t, [f EXCEPT !.elapsed = @ + d], call, "verify")
    /\ UNCHANGED <<EXEC_ENABLED, _exec_lock>>
    /\ UNCHANGED <<scanVars, calcVars, botVars>>

Step6Timeout(t) ==
    /\ pc[t] = "verify"
    /\ ~VerifyLoopContinues(frame[t].elapsed)
    /\ LET f == frame[t]
       IN  Abort(t, f, <<>>,
                 Msg("check_manually_timeout", [NoInfo EXCEPT !.ao_ref = f.bet_ref]),
                 [DefaultRow EXCEPT !.status = "ao_timeout", !.ao_ref = f.bet_ref,
                                    !.ao_stake = f.ao_stake,
                                    !.ao_price = f.live_pin_price,
                                    !.error_message = "AO verification timeout"])
    /\ UNCHANGED <<EXEC_ENABLED, _exec_lock>>
    /\ UNCHANGED <<scanVars, calcVars, botVars>>

\* ----------------------------------------------- step 7: BF placeOrders LAY
BfBetIds == {"BF1"}
PlaceOrderResults == {"raise", "none", "failure", "success"}

\* the row and the message of a lay placement that failed
BfFailedInfo_mut_requested(f, final_lay_stake) ==
    [DefaultRow EXCEPT !.status = "bf_failed", !.ao_ref = f.bet_ref,
                       !.ao_stake = f.ao_stake, !.ao_price = f.live_pin_price,
                       !.bf_lay_stake = final_lay_stake,
                       !.bf_lay_price = f.live_bf_lay,
                       !.margin_pct = Pct(f.margin),
                       !.expected_profit = f.expected_profit,
                       !.error_message = "BF lay failed"]
BfFailedInfo(f, final_lay_stake) ==
    [DefaultRow EXCEPT !.status = "bf_failed", !.ao_ref = f.bet_ref,
                       !.ao_stake = f.confirmed_stake, !.ao_price = f.live_pin_price,
                       !.bf_lay_stake = final_lay_stake,
                       !.bf_lay_price = f.live_bf_lay,
                       !.margin_pct = Pct(f.margin),
                       !.expected_profit = f.expected_profit,
                       !.error_message = "BF lay failed"]

Step7(t) ==
    /\ pc[t] = "step7"
    /\ \E res \in PlaceOrderResults, id \in BfBetIds :
       LET f0 == frame[t]
           final_lay_stake ==
               Round2(_calc_lay_stake(f0.confirmed_stake, f0.live_pin_price, f0.live_bf_lay))
           f == [f0 EXCEPT !.final_lay_stake = final_lay_stake]
           call == <<Call("place_orders", [NoInfo EXCEPT !.bf_lay_stake = final_lay_stake,
                                                         !.bf_lay_price = f.live_bf_lay])>>
       IN  IF res # "success"
           THEN Abort(t, f, call,
                      Msg("hedge_manually",
                          [NoInfo EXCEPT !.ao_ref = f.bet_ref,
                                         !.ao_stake = f.confirmed_stake,
                                         !.ao_price = f.live_pin_price,
                                         !.bf_lay_price = f.live_bf_lay,
                                         !.bf_lay_stake = final_lay_stake]),
                      BfFailedInfo(f, final_lay_stake))
           ELSE LET row == [DefaultRow EXCEPT
                               !.status = "executed", !.ao_ref = f.bet_ref,
                               !.bf_bet_id = id, !.ao_stake = f.confirmed_stake,
                               !.ao_price = f.live_pin_price,
                               !.bf_lay_stake = final_lay_stake,
                               !.bf_lay_price = f.live_bf_lay,
                               !.margin_pct = Pct(f.margin),
                               !.expected_profit = f.expected_profit]
                IN  \E ok \in BOOLEAN :
                      Finish(t, [f EXCEPT !.bf_bet_id = id],
                             call \o LogThenNotify(row,
                                 Msg("arb_executed", [row EXCEPT !.error_message = ""])),
                             row, ok)
    /\ UNCHANGED <<EXEC_ENABLED, _exec_lock>>
    /\ UNCHANGED <<scanVars, calcVars, botVars>>

\* -------------------------------------------------------- specification
\* ------------------------------------------- an exception in the saga
\* the positions inside _execute_arb_inner
BodyPcs ==
    {"kill_switch", "step1", "step2", "step3", "step4", "step5", "verify", "step7"}

\* a statement outside the try blocks of _execute_arb_inner raises (a ctx
\* price that is None under the :.3f of the dry-run text, a failing import
\* inside _send_msg): the exception leaves the function, its locals are gone
Raise(t) ==
    /\ pc[t] \in BodyPcs
    /\ pc' = [pc EXCEPT ![t] = "unwind"]
    /\ frame' = [frame EXCEPT ![t] = NilFrame]
    /\ UNCHANGED <<EXEC_ENABLED, _exec_lock, executions>>
    /\ UNCHANGED <<scanVars, calcVars, botVars>>

\* the finally clause of execute_arb on the way out with the exception,
\* which the caller catches
Unwind_mut_leak(t) ==
    /\ pc[t] = "unwind"
    /\ pc' = [pc EXCEPT ![t] = "idle"]
    /\ UNCHANGED <<EXEC_ENABLED, _exec_lock, executions, frame>>
    /\ UNCHANGED <<scanVars, calcVars, botVars>>
Unwind(t) ==
    /\ pc[t] = "unwind"
    /\ _exec_lock' = FALSE
    /\ pc' = [pc EXCEPT ![t] = "idle"]
    /\ UNCHANGED <<EXEC_ENABLED, executions, frame>>
    /\ UNCHANGED <<scanVars, calcVars, botVars>>

\* the way out of execute_arb, by the return or with the exception
Leave(t) == Release(t) \/ Unwind(t)

\* the steps of one invocation inside _execute_arb_inner
Advance(t) ==
    \/ KillSwitch(t)
    \/ Step1(t)
    \/ Step2(t)
    \/ Step3(t)
    \/ Step4(t)
    \/ Step5(t)
    \/ Step6Poll(t)
    \/ Step6Timeout(t)
    \/ Step7(t)
    \/ Raise(t)

Next ==
    \E t \in Threads :
        \/ ExecuteArb(t)
        \/ KillSwitch(t)
        \/ Step1(t)
        \/ Step2(t)
        \/ Step3(t)
        \/ Step4(t)
        \/ Step5(t)
        \/ Step6Poll(t)
        \/ Step6Timeout(t)
        \/ Step7(t)
        \/ Release(t)
        \/ Return(t)
        \/ Raise(t)
        \/ Unwind(t)

\* ============================================================ arb scanner
ARB_MIN_MARGIN == Rat(1, 1000)
ARB_ALERT_MARGIN == Rat(5, 1000)
ARB_MIN_VOLUME == 100
ARB_MAX_AGE_SECONDS == 60
ARB_MAX_MARGIN == Rat(5, 100)
ARB_ENABLED == TRUE
MIN_PRICE == Rat(101, 100)

\* time: datetime.now and time.time are read to the minute, the unit of the
\* daily report's window test
MinutesPerHour == 60
MinutesPerDay == 1440
SecondsPerMinute == 60
ReportWindowMinutes == 5
Hour(now) == (now % MinutesPerDay) \div MinutesPerHour
Minute(now) == now % MinutesPerHour
Midnight(now) == now - (now % MinutesPerDay)
Date(now) == now \div MinutesPerDay

\* round(x, 3): nearest thousandth, ties to even
Round3(a) ==
    LET num == a[1] * 1000
        q == num \div a[2]
        r2 == 2 * (num % a[2])
    IN  IF r2 < a[2] THEN Rat(q, 1000)
        ELSE IF r2 > a[2] THEN Rat(q + 1, 1000)
        ELSE IF q % 2 = 0 THEN Rat(q, 1000) ELSE Rat(q + 1, 1000)

\* calc_margin and calc_lay_stake under the commission rate the process read
\* from ARB_COMMISSION when the module was imported
calc_margin_at_mut_gross(commission, p_b, p_l) == RDiv(RSub(p_b, p_l), p_b)
calc_margin_at_mut_backonly(commission, p_b, p_l) ==
    RDiv(RMul(RSub(One, commission), RSub(p_b, One)), p_b)
calc_margin_at(commission, p_b, p_l) ==
    RDiv(RSub(RMul(RSub(One, commission), RSub(p_b, One)), RSub(p_l, One)), p_b)

calc_lay_stake_at(commission, back_stake, p_b, p_l) ==
    RDiv(RMul(back_stake, p_b), RSub(p_l, RMul(commission, RSub(p_l, One))))

calc_margin(p_b, p_l) == calc_margin_at(BETFAIR_COMMISSION, p_b, p_l)

calc_lay_stake(back_stake, p_b, p_l) ==
    calc_lay_stake_at(BETFAIR_COMMISSION, back_stake, p_b, p_l)

\* ------------------------------------------------------------ the feed
Keys == {1, 2}
\* SQL NULL, and Python None, in a column or field of numbers
NULL == -1
\* a last_updated text that datetime.fromisoformat rejects
Unparseable == -2

\* a market_feed row: the prices, the matched volume, and last_updated as
\* its age in seconds when the scan reads it
FeedRow(id, p_b, p_l, volume, age) ==
    [id |-> id, price_pinnacle |-> p_b, lay_price |-> p_l, volume |-> volume,
     last_updated |-> age]
High(id) == FeedRow(id, Rat(210, 100), Rat(200, 100), 500, 5)
Low(id) == FeedRow(id, Rat(206, 100), Rat(200, 100), 50, 5)
Stale(id) == FeedRow(id, Rat(210, 100), Rat(200, 100), 500, 120)
Undated(id) == FeedRow(id, Rat(210, 100), Rat(200, 100), 500, NULL)
Unprofitable(id) == FeedRow(id, Rat(200, 100), Rat(200, 100), 500, 5)
Suspicious(id) == FeedRow(id, Rat(300, 100), Rat(200, 100), 500, 5)
Unpriced(id) == FeedRow(id, MIN_PRICE, Rat(200, 100), 500, 5)

FeedError == [raises |-> TRUE, data |-> <<>>]
FeedData(rows) == [raises |-> FALSE, data |-> rows]

\* what the market_feed query answers in one cycle
Responses ==
    {FeedError, FeedData(<<>>), FeedData(<<High(1)>>), FeedData(<<Low(1)>>),
     FeedData(<<Low(1), High(2)>>), FeedData(<<Stale(1), Undated(2)>>),
     FeedData(<<Unprofitable(1), High(2)>>),
     FeedData(<<Suspicious(2), Unpriced(1)>>)}
QuietResponses == {FeedData(<<>>), FeedData(<<High(1)>>)}

\* ------------------------------------------------------------ scan_arbs
RowPasses_mut_nostale(row) ==
    /\ ~RLe(row.price_pinnacle, MIN_PRICE)
    /\ ~RLe(row.lay_price, MIN_PRICE)
    /\ LET margin == calc_margin(row.price_pinnacle, row.lay_price)
       IN  RLe(ARB_MIN_MARGIN, margin) /\ RLe(margin, ARB_MAX_MARGIN)
RowPasses(row) ==
    /\ ~RLe(row.price_pinnacle, MIN_PRICE)
    /\ ~RLe(row.lay_price, MIN_PRICE)
    /\ row.last_updated # NULL
    /\ row.last_updated # Unparseable
    /\ ~(row.last_updated > ARB_MAX_AGE_SECONDS)
    /\ LET margin == calc_margin(row.price_pinnacle, row.lay_price)
       IN  RLe(ARB_MIN_MARGIN, margin) /\ RLe(margin, ARB_MAX_MARGIN)

ArbOf(row) ==
    LET margin == calc_margin(row.price_pinnacle, row.lay_price)
    IN  [id |-> row.id, pin_back |-> row.price_pinnacle, bf_lay |-> row.lay_price,
         margin_pct |-> Round3(Pct(margin)),
         profit_per_100 |-> Round2(Pct(margin)),
         volume |-> row.volume]

\* sorted(arbs, key=lambda x: -x['margin_pct']): stable, largest margin first
RECURSIVE InsertByMargin(_, _)
InsertByMargin(sorted, arb) ==
    IF sorted = <<>> THEN <<arb>>
    ELSE IF RLt(sorted[Len(sorted)].margin_pct, arb.margin_pct)
    THEN Append(InsertByMargin(SubSeq(sorted, 1, Len(sorted) - 1), arb),
                sorted[Len(sorted)])
    ELSE Append(sorted, arb)

RECURSIVE SortedByMargin(_)
SortedByMargin(arbs) ==
    IF arbs = <<>> THEN <<>>
    ELSE InsertByMargin(SortedByMargin(SubSeq(arbs, 1, Len(arbs) - 1)),
                        arbs[Len(arbs)])

\* a feed error is caught and answered with the empty list
scan_arbs(response) ==
    IF response.raises THEN <<>>
    ELSE LET passed == SelectSeq(response.data, RowPasses)
         IN  SortedByMargin([i \in DOMAIN passed |-> ArbOf(passed[i])])

\* ------------------------------------------------------------ the arb_log
Str(id) == ToString(id)

\* each write opens the database itself; one that raises is caught and only
\* logged, and changes nothing
_log_arb_open_mut_replace(log, arb, now, ok) ==
    IF ok
    THEN Append(SelectSeq(log, LAMBDA row : row.market_feed_id # Str(arb.id)),
                [market_feed_id |-> Str(arb.id), margin_pct |-> arb.margin_pct,
                 volume |-> arb.volume,
                 first_seen |-> now, last_seen |-> now, gone_at |-> NULL,
                 duration_seconds |-> NULL,
                 peak_margin_pct |-> arb.margin_pct])
    ELSE log
_log_arb_open_mut_reopen(log, arb, now, ok) ==
    IF ok
    THEN IF \E i \in DOMAIN log : log[i].market_feed_id = Str(arb.id)
         THEN [i \in DOMAIN log |->
                 IF log[i].market_feed_id = Str(arb.id)
                 THEN [log[i] EXCEPT !.gone_at = NULL, !.last_seen = now]
                 ELSE log[i]]
         ELSE Append(log, [market_feed_id |-> Str(arb.id), margin_pct |-> arb.margin_pct,
                      volume |-> arb.volume,
                           first_seen |-> now, last_seen |-> now, gone_at |-> NULL,
                           duration_seconds |-> NULL,
                           peak_margin_pct |-> arb.margin_pct])
    ELSE log
_log_arb_open(log, arb, now, ok) ==
    IF ok
    THEN Append(log, [market_feed_id |-> Str(arb.id), margin_pct |-> arb.margin_pct,
                      volume |-> arb.volume,
                      first_seen |-> now, last_seen |-> now, gone_at |-> NULL,
                      duration_seconds |-> NULL,
                      peak_margin_pct |-> arb.margin_pct])
    ELSE log

_log_arb_update(log, market_feed_id, now, peak_margin, ok) ==
    IF ok
    THEN [i \in DOMAIN log |->
            IF log[i].market_feed_id = Str(market_feed_id) /\ log[i].gone_at = NULL
            THEN [log[i] EXCEPT !.last_seen = now, !.peak_margin_pct = peak_margin]
            ELSE log[i]]
    ELSE log

_log_arb_close(log, market_feed_id, now, duration, peak_margin, ok) ==
    IF ok
    THEN [i \in DOMAIN log |->
            IF log[i].market_feed_id = Str(market_feed_id) /\ log[i].gone_at = NULL
            THEN [log[i] EXCEPT !.gone_at = now, !.duration_seconds = duration,
                                !.peak_margin_pct = peak_margin]
            ELSE log[i]]
    ELSE log

\* ------------------------------------------------------------ run_arb_scan
\* the alert test of a newly detected arb
AlertDue_mut_anyvolume(arb) == RLe(Pct(ARB_ALERT_MARGIN), arb.margin_pct)
AlertDue(arb) ==
    /\ RLe(Pct(ARB_ALERT_MARGIN), arb.margin_pct)
    /\ arb.volume >= ARB_MIN_VOLUME

\* dict assignment and dict.pop
Put(dict, key, value) ==
    [k \in DOMAIN dict \cup {key} |-> IF k = key THEN value ELSE dict[k]]
Pop_mut_keep(dict, key) == dict
Pop(dict, key) == [k \in DOMAIN dict \ {key} |-> dict[k]]

\* the peak of an arb that is still open
UpdatePeak_mut_latest(peak_margin, margin_pct) == margin_pct
UpdatePeak(peak_margin, margin_pct) ==
    IF RLt(peak_margin, margin_pct) THEN margin_pct ELSE peak_margin

\* one pass of the loop `for arb in arbs`
TrackArb(st, arb, now, ok) ==
    LET mid == arb.id
    IN  IF mid \notin DOMAIN st.open
        THEN [open |-> Put(st.open, mid,
                          [first_seen |-> now, peak_margin |-> arb.margin_pct,
                           data |-> arb]),
              log |-> _log_arb_open(st.log, arb, now, ok[mid]),
              alerts |-> IF AlertDue(arb) THEN st.alerts \cup {mid} ELSE st.alerts]
        ELSE LET peak == UpdatePeak(st.open[mid].peak_margin, arb.margin_pct)
             IN  [open |-> [st.open EXCEPT ![mid].peak_margin = peak],
                  log |-> _log_arb_update(st.log, mid, now, peak, ok[mid]),
                  alerts |-> st.alerts]

RECURSIVE TrackAll(_, _, _, _)
TrackAll(st, arbs, now, ok) ==
    IF arbs = <<>> THEN st
    ELSE TrackAll(TrackArb(st, Head(arbs), now, ok), Tail(arbs), now, ok)

\* (now - first_seen).total_seconds(), and the int() of _log_arb_close
Duration(now, first_seen) == (now - first_seen) * SecondsPerMinute

\* the loop that closes the arbs that have disappeared: each close touches
\* only the rows of its own key
RECURSIVE CloseGone(_, _, _, _, _)
CloseGone(st, gone, current_ids, now, ok) ==
    IF gone = {} THEN st
    ELSE LET mid == CHOOSE k \in gone : \A j \in gone : k <= j
             info == st.open[mid]
         IN  CloseGone(
                [st EXCEPT !.open = Pop(@, mid),
                           !.log = _log_arb_close(@, mid, now,
                                       Duration(now, info.first_seen),
                                       info.peak_margin, ok[mid])],
                gone \ {mid}, current_ids, now, ok)

\* the daily report with no window: due whenever today's has not been sent
ReportDue_mut_allday(last_daily_report, now) ==
    ~(last_daily_report >= Midnight(now))

\* _maybe_send_daily_report: whether the report is due at `now`
ReportDue(last_daily_report, now) ==
    /\ ~(last_daily_report >= Midnight(now))
    /\ Hour(now) = 0
    /\ Minute(now) < ReportWindowMinutes

\* the time that passes from one call of run_arb_scan to the next
PollSteps == {1}
ClockSteps == PollSteps \cup {MinutesPerDay}

Ids(arbs) == {arbs[i].id : i \in DOMAIN arbs}

\* run_arb_scan: the scan, the tracker's two loops and the daily report.
\* `failed` are the keys whose arb_log write raises in this cycle, report_ok
\* is whether _send_daily_report gets its message out
RunArbScan(response, step, failed, report_ok) ==
    /\ ARB_ENABLED
    /\ cycle.n < MaxCycles
    /\ LET now == clock
           arbs == scan_arbs(response)
           current_ids == Ids(arbs)
           ok == [k \in Keys |-> k \notin failed]
           tracked == TrackAll([open |-> _open_arbs, log |-> arb_log, alerts |-> {}],
                               arbs, now, ok)
           gone == {k \in DOMAIN tracked.open : k \notin current_ids}
           closed == CloseGone(tracked, gone, current_ids, now, ok)
           due == ReportDue(_last_daily_report, now)
       IN  /\ failed \subseteq current_ids \cup gone
           /\ due \/ report_ok
           /\ _open_arbs' = closed.open
           /\ arb_log' = closed.log
           /\ _last_daily_report' = IF due THEN now ELSE _last_daily_report
           /\ reports' = IF due /\ report_ok
                         THEN Append(reports, Date(now) - 1)
                         ELSE reports
           /\ cycle' = [n |-> cycle.n + 1, now |-> now,
                        feed_error |-> response.raises, arbs |-> arbs,
                        alerts |-> closed.alerts, closed |-> gone,
                        written |-> (current_ids \cup gone) \ failed,
                        report |-> due]
    /\ clock' = clock + step
    /\ UNCHANGED <<sagaVars, calcVars, botVars>>

\* the process is restarted: the module globals are initialised again, the
\* database file and the messages already sent stay
NoCycle ==
    [n |-> 0, now |-> 0, feed_error |-> FALSE, arbs |-> <<>>, alerts |-> {},
     closed |-> {}, written |-> {}, report |-> FALSE]

Restart ==
    /\ cycle.n > 0
    /\ _open_arbs' = <<>>
    /\ _last_daily_report' = 0
    /\ cycle' = [NoCycle EXCEPT !.n = cycle.n]
    /\ UNCHANGED <<arb_log, clock, reports, sagaVars, calcVars, botVars>>

\* the process starts a few minutes after a midnight
StartClock == MinutesPerDay + 3

ScanIdle ==
    /\ _open_arbs = <<>>
    /\ _last_daily_report = 0
    /\ arb_log = <<>>
    /\ clock = StartClock
    /\ cycle = NoCycle
    /\ reports = <<>>

\* the tracker under every feed answer and write failure, polled each minute
ScanNext ==
    \/ \E response \in Responses, step \in PollSteps, failed \in SUBSET Keys :
            RunArbScan(response, step, failed, TRUE)
    \/ Restart

\* the daily report under every clock step and report failure, quiet feed
DailyNext ==
    \/ \E response \in QuietResponses, step \in ClockSteps, report_ok \in BOOLEAN :
            RunArbScan(response, step, {}, report_ok)
    \/ Restart

\* ===================================================== the price functions
\* the arguments: decimal odds above 1, on either side of the 1.01 floor, a
\* back stake, the commission rate of the environment, and a second price
\* each side is moved to
CalcPrices ==
    {Rat(1005, 1000), Rat(102, 100), Rat(145, 100), Rat(150, 100), Rat(200, 100),
     Rat(204, 100), Rat(210, 100), Rat(215, 100), Rat(300, 100), Rat(500, 100),
     Rat(520, 100)}
CalcStakes == {Rat(5, 1), Rat(100, 1)}
Commissions == {Zero, Rat(1, 100), BETFAIR_COMMISSION, Rat(5, 100)}

NoCalc == [called |-> FALSE, commission |-> BETFAIR_COMMISSION,
           back_stake |-> Zero, p_b |-> One, p_l |-> One, p_other |-> One,
           margin |-> Unset, lay_stake |-> Unset,
           margin_back_moved |-> Unset, margin_lay_moved |-> Unset]
CalcIdle == calc = NoCalc

CalcInit ==
    \E commission \in Commissions, back_stake \in CalcStakes,
       p_b \in CalcPrices, p_l \in CalcPrices, p_other \in CalcPrices :
        calc = [NoCalc EXCEPT !.commission = commission,
                              !.back_stake = back_stake,
                              !.p_b = p_b, !.p_l = p_l, !.p_other = p_other]

\* calc_margin and calc_lay_stake are called on the arguments, and
\* calc_margin again with each price in turn moved to the second price
CalcApply ==
    /\ ~calc.called
    /\ calc' = [calc EXCEPT
                   !.called = TRUE,
                   !.margin = calc_margin_at(calc.commission, calc.p_b, calc.p_l),
                   !.lay_stake = calc_lay_stake_at(calc.commission, calc.back_stake,
                                                   calc.p_b, calc.p_l),
                   !.margin_back_moved =
                       calc_margin_at(calc.commission, calc.p_other, calc.p_l),
                   !.margin_lay_moved =
                       calc_margin_at(calc.commission, calc.p_b, calc.p_other)]
    /\ UNCHANGED <<sagaVars, scanVars, feed, botVars>>

CalcNext == CalcApply

\* ================================================== scan_arbs on its own
\* the answers of the market_feed query: up to MaxFeedRows rows, the row at
\* position i with id i, each with any of the price pairs and any of the
\* last_updated values (missing, malformed, fresh, at the age limit, past it)
MaxFeedRows == 2
FeedPrices ==
    {<<Rat(210, 100), Rat(200, 100)>>, <<Rat(208, 100), Rat(200, 100)>>,
     <<Rat(206, 100), Rat(200, 100)>>, <<Rat(200, 100), Rat(200, 100)>>,
     <<Rat(300, 100), Rat(200, 100)>>, <<MIN_PRICE, Rat(100, 100)>>,
     <<Rat(102, 100), MIN_PRICE>>}
FeedAges == {NULL, Unparseable, 5, ARB_MAX_AGE_SECONDS, ARB_MAX_AGE_SECONDS + 1}
FeedAnswers ==
    UNION {[1..n -> FeedPrices \X FeedAges] : n \in 0..MaxFeedRows}
FeedOf(answer) ==
    FeedData([i \in DOMAIN answer |->
                FeedRow(i, answer[i][1][1], answer[i][1][2], 500, answer[i][2])])

NoFeed == [called |-> FALSE, response |-> FeedData(<<>>), arbs |-> <<>>]
FeedIdle == feed = NoFeed

FeedDrawn ==
    \E answer \in FeedAnswers :
        feed = [NoFeed EXCEPT !.response = FeedOf(answer)]

\* scan_arbs is called on the answer
ScanApply ==
    /\ ~feed.called
    /\ feed' = [feed EXCEPT !.called = TRUE, !.arbs = scan_arbs(feed.response)]
    /\ UNCHANGED <<sagaVars, scanVars, calc, botVars>>

FeedNext == ScanApply

\* ==================================================== steamer_detector.py
\* time in minutes, shifts of implied probability in percentage points
STEAM_THRESHOLD == 3
STEAM_COOLDOWN == 30
STEAM_REALERT_INCREMENT == 2

\* the dedup test of _maybe_alert on the entry of the pair: inside the
\* cooldown, and the move not extended by the re-alert increment
Suppressed_mut_cooldown(last, shift, now) == now - last.ts < STEAM_COOLDOWN
Suppressed(last, shift, now) ==
    /\ now - last.ts < STEAM_COOLDOWN
    /\ shift < last.shift_pp + STEAM_REALERT_INCREMENT

\* _maybe_alert for the pair `key`, called by _check_and_alert with a shift
\* of at least STEAM_THRESHOLD, `step` after the previous call; `sent` is
\* what _send_steam_alert returns
MaybeAlert(key, shift, step, sent) ==
    /\ steam.n < MaxSteamCalls
    /\ LET now == steam.now + step
           attempted == ~(/\ key \in DOMAIN _last_alerted
                          /\ Suppressed(_last_alerted[key], shift, now))
       IN  /\ attempted \/ ~sent
           /\ _last_alerted' =
                 IF attempted
                 THEN Put(_last_alerted, key, [ts |-> now, shift_pp |-> shift])
                 ELSE _last_alerted
           /\ steam' = [n |-> steam.n + 1, now |-> now, key |-> key,
                        shift |-> shift, attempted |-> attempted, sent |-> sent]
    /\ UNCHANGED <<_pending_arbs, tg>>
    /\ UNCHANGED <<sagaVars, scanVars, calcVars>>

\* cleanup_finished_events: the dedup entries of rows no longer active go
CleanupFinishedEvents(active_ids) ==
    /\ _last_alerted' =
          [k \in {x \in DOMAIN _last_alerted : x[1] \in active_ids} |->
              _last_alerted[k]]
    /\ UNCHANGED <<steam, _pending_arbs, tg>>
    /\ UNCHANGED <<sagaVars, scanVars, calcVars>>

\* the pairs (row_id, source), the qualifying shifts and the time between
\* two calls: a minute, or a minute short of the cooldown
SteamKeys == {<<1, "PIN">>, <<1, "BF">>}
SteamNext ==
    \/ \E key \in SteamKeys, sent \in BOOLEAN, step \in {1, STEAM_COOLDOWN - 1},
          shift \in STEAM_THRESHOLD .. (STEAM_THRESHOLD + STEAM_REALERT_INCREMENT) :
            MaybeAlert(key, shift, step, sent)
    \/ \E active_ids \in SUBSET {1} : CleanupFinishedEvents(active_ids)

\* =================================================== telegram_callback.py
\* time in seconds
ARB_TTL == 60
TELEGRAM_CHAT_ID == 7

\* str(chat_id) != str(TELEGRAM_CHAT_ID), chat_id None when the query has
\* no message
Authorized_mut_anyone(chat_id) == TRUE
Authorized(chat_id) == Str(chat_id) = Str(TELEGRAM_CHAT_ID)

\* the age test of the pending arb, of the handler and of _cleanup_expired
PendingExpired_mut_never(now, registered_at) == FALSE
PendingExpired(now, registered_at) == now - registered_at > ARB_TTL

\* register_pending_arb, `step` after the previous event; the context is
\* told apart from every other registration's by the event number
RegisterPendingArb(arb_id, step) ==
    /\ tg.n < MaxEvents
    /\ LET now == tg.now + step
       IN  /\ _pending_arbs' = Put(_pending_arbs, arb_id,
                                   [context |-> tg.n + 1, registered_at |-> now])
           /\ tg' = [tg EXCEPT !.n = @ + 1, !.now = now,
                               !.last = [kind |-> "register", chat_id |-> NULL, cmd |-> "",
                                         arb_id |-> arb_id, outcome |-> ""]]
    /\ UNCHANGED <<_last_alerted, steam>>
    /\ UNCHANGED <<sagaVars, scanVars, calcVars>>

\* _cleanup_expired, at the head of a turn of _callback_loop
CleanupExpired(step) ==
    /\ tg.n < MaxEvents
    /\ LET now == tg.now + step
       IN  /\ _pending_arbs' =
                 [k \in {x \in DOMAIN _pending_arbs :
                            ~PendingExpired(now, _pending_arbs[x].registered_at)} |->
                     _pending_arbs[k]]
           /\ tg' = [tg EXCEPT !.n = @ + 1, !.now = now,
                               !.last = [kind |-> "cleanup", chat_id |-> NULL, cmd |-> "",
                                         arb_id |-> "", outcome |-> ""]]
    /\ UNCHANGED <<_last_alerted, steam>>
    /\ UNCHANGED <<sagaVars, scanVars, calcVars>>

\* the button presses: the data "exec_arb:<arb_id>" or something else, from
\* the operator's chat, another chat, or with no chat
CallbackQueries ==
    [cmd : {"exec_arb", "other"}, arb_id : {"a", "b"},
     chat_id : {TELEGRAM_CHAT_ID, TELEGRAM_CHAT_ID + 1, NULL}]

\* _handle_callback_query, `step` after the previous event. execute_arb is
\* the saga of arb_executor.py, which does not touch _pending_arbs: here it
\* is one call, and `result` is how it ended
HandleCallbackQuery(query, step, result) ==
    /\ tg.n < MaxEvents
    /\ LET now == tg.now + step
           popped == Authorized(query.chat_id) /\ query.cmd = "exec_arb"
           found == popped /\ query.arb_id \in DOMAIN _pending_arbs
           run == /\ found
                  /\ ~PendingExpired(now, _pending_arbs[query.arb_id].registered_at)
           outcome == IF ~Authorized(query.chat_id) THEN "unauthorized"
                      ELSE IF query.cmd # "exec_arb" THEN "ignored"
                      ELSE IF ~found THEN "expired or already processed"
                      ELSE IF ~run THEN "expired"
                      ELSE result
       IN  /\ run \/ result = "executed"
           /\ _pending_arbs' = IF popped THEN Pop(_pending_arbs, query.arb_id)
                                         ELSE _pending_arbs
           /\ tg' = [n |-> tg.n + 1, now |-> now,
                     launched |->
                        IF run
                        THEN Append(tg.launched,
                                    [arb_id |-> query.arb_id,
                                     context |-> _pending_arbs[query.arb_id].context,
                                     registered_at |->
                                        _pending_arbs[query.arb_id].registered_at,
                                     at |-> now, outcome |-> result])
                        ELSE tg.launched,
                     last |-> [kind |-> "tap", chat_id |-> query.chat_id,
                               cmd |-> query.cmd, arb_id |-> query.arb_id,
                               outcome |-> outcome]]
    /\ UNCHANGED <<_last_alerted, steam>>
    /\ UNCHANGED <<sagaVars, scanVars, calcVars>>

\* every order of registrations, presses and cleanups, a second or the
\* whole time to live apart; execute_arb runs to the end, aborts, is
\* rejected as busy or raises
TgNext ==
    \/ \E arb_id \in {"a", "b"}, step \in {1, ARB_TTL} :
            RegisterPendingArb(arb_id, step)
    \/ \E step \in {1, ARB_TTL} : CleanupExpired(step)
    \/ \E query \in CallbackQueries, step \in {1, ARB_TTL},
          result \in {"executed", "aborted", "busy", "raised"} :
            HandleCallbackQuery(query, step, result)

\* nothing recorded by the steamer detector, nothing registered or pressed
BotIdle ==
    /\ _last_alerted = <<>>
    /\ steam = [n |-> 0, now |-> 0, key |-> <<0, "">>, shift |-> 0,
                attempted |-> FALSE, sent |-> FALSE]
    /\ _pending_arbs = <<>>
    /\ tg = [n |-> 0, now |-> 0, launched |-> <<>>,
             last |-> [kind |-> "", chat_id |-> NULL, cmd |-> "", arb_id |-> "",
                       outcome |-> ""]]

\* ---------------------------------------------------------- specifications
Init == SagaInit /\ ScanIdle /\ CalcIdle /\ FeedIdle /\ BotIdle

Spec == Init /\ [][Next]_vars

\* each handler thread keeps running: a venue call answers or times out, the
\* poll loop sleeps for half a second at a time, and the finally clause is
\* run. The second conjunct is weak fairness of Advance(t) with its enabling
\* condition, being inside _execute_arb_inner, written out.
SpecFair ==
    Spec /\ \A t \in Threads :
                /\ WF_vars(Leave(t))
                /\ ([]<>(pc[t] \notin BodyPcs)) \/ ([]<><<Advance(t)>>_vars)

ScanInit == SagaInit /\ ~EXEC_ENABLED /\ ScanIdle /\ CalcIdle /\ FeedIdle /\ BotIdle

SpecScan == ScanInit /\ [][ScanNext]_vars

SpecDaily == ScanInit /\ [][DailyNext]_vars

PureInit == SagaInit /\ ~EXEC_ENABLED /\ ScanIdle /\ CalcInit /\ FeedIdle /\ BotIdle

SpecCalc == PureInit /\ [][CalcNext]_vars

FeedInit == SagaInit /\ ~EXEC_ENABLED /\ ScanIdle /\ CalcIdle /\ FeedDrawn /\ BotIdle

SpecFeed == FeedInit /\ [][FeedNext]_vars

\* the steamer detector and the callback handler start with the process
SpecSteam == ScanInit /\ [][SteamNext]_vars

SpecTg == ScanInit /\ [][TgNext]_vars

\* ================================================================ claims
SagaPcs ==
    {"kill_switch", "step1", "step2", "step3", "step4", "step5", "verify",
     "step7", "release"}
InSaga(t) == pc[t] \in SagaPcs
Ended(t) == pc[t] = "release"

IsCall(e, name) == e.ev = "call" /\ e.tag = name
HasCall(tr, name) == \E i \in DOMAIN tr : IsCall(tr[i], name)
HasMsg(tr, tag) == \E i \in DOMAIN tr : tr[i].ev = "msg" /\ tr[i].tag = tag
NumCalls(tr, name) == Cardinality({i \in DOMAIN tr : IsCall(tr[i], name)})
NumLogs(tr) == Cardinality({i \in DOMAIN tr : tr[i].ev = "log"})
VenueCalls(tr) == SelectSeq(tr, LAMBDA e : e.ev = "call")

\* the notifications that announce the final result of an invocation
AbortMsgs ==
    {"dry_run", "bf_error", "bf_not_found", "in_play", "bf_status",
     "runner_inactive", "no_lay", "ao_unavailable", "ao_info_error",
     "ao_info_failed", "ao_price_invalid", "margin_thin", "ao_place_error",
     "ao_place_failed", "check_manually_no_ref", "ao_rejected", "ao_cancelled",
     "ao_void", "check_manually_timeout", "hedge_manually"}
TerminalMsgs == AbortMsgs \cup {"arb_executed"}

\* C1: at most one invocation is past the lock acquisition (running
\* _execute_arb_inner or about to release) at any time.
C1_MutualExclusion ==
    \A t1, t2 \in Threads : t1 # t2 => ~(InSaga(t1) /\ InSaga(t2))

C1_Witness ==
    \E t1, t2 \in Threads :
        /\ t1 # t2
        /\ InSaga(t1) /\ HasCall(frame[t1].trace, "place_bet")
        /\ pc[t2] = "busy"

\* C2: an invocation that finds the lock held does not wait: it is rejected
\* at once, its only effect is the busy notification, and it makes no venue
\* call and writes no row.
C2_BusyFailsFast ==
    \A t \in Threads :
        frame[t].arrived_locked =>
            /\ pc[t] = "busy"
            /\ frame[t].trace = <<Msg("busy", NoInfo)>>
            /\ VenueCalls(frame[t].trace) = <<>>
            /\ frame[t].written = 0

C2_Witness ==
    \E t1, t2 \in Threads :
        /\ pc[t1] = "verify" /\ _exec_lock
        /\ pc[t2] = "busy" /\ frame[t2].arrived_locked

\* C3: a lay order is placed only after a poll answered confirmed (confirmed,
\* accepted or running) for a back bet that was placed and has a reference;
\* none is placed once the back placement failed or raised, returned no
\* reference, was rejected, cancelled or void, or the poll timed out.
NoLayMsgs ==
    {"ao_place_error", "ao_place_failed", "check_manually_no_ref",
     "ao_rejected", "ao_cancelled", "ao_void", "check_manually_timeout"}

C3_LayOnlyAfterConfirmation ==
    \A t \in Threads :
        LET f == frame[t]
            tr == f.trace
        IN  /\ \A i \in DOMAIN tr :
                IsCall(tr[i], "place_orders") =>
                    /\ f.answer = "confirmed"
                    /\ f.ao_confirmed
                    /\ f.bet_ref # None
                    /\ \E j \in 1..(i - 1) : IsCall(tr[j], "get_bet_by_reference")
                    /\ \E j \in 1..(i - 1) : IsCall(tr[j], "place_bet")
            /\ (\E m \in NoLayMsgs : HasMsg(tr, m)) => ~HasCall(tr, "place_orders")
            /\ (pc[t] \in {"step7", "release"} /\ f.answer # "confirmed")
                   => ~HasCall(tr, "place_orders")

C3_Witness ==
    \E t \in Threads :
        /\ HasCall(frame[t].trace, "place_orders")
        /\ NumCalls(frame[t].trace, "get_bet_by_reference") >= 2

\* C4: when the lay-venue revalidation raises or reports the market missing,
\* in-play or not OPEN, the runner missing or not ACTIVE, or no lay offers,
\* the saga ends as failed with the revalidation as its only venue call.
BadBook(b) ==
    \/ b.raises
    \/ ~b.found
    \/ b.inplay
    \/ b.status # "OPEN"
    \/ b.runner # "ACTIVE"
    \/ b.available_to_lay = <<>>

C4_RevalidationAbort ==
    \A t \in Threads :
        LET f == frame[t]
            tr == f.trace
        IN  (f.book # NoBook /\ BadBook(f.book)) =>
                /\ Ended(t)
                /\ VenueCalls(tr) = <<Call("list_market_book", NoInfo)>>
                /\ tr[Len(tr)].ev = "log" /\ tr[Len(tr)].tag = "failed"

C4_Witness ==
    \E t \in Threads :
        /\ Ended(t)
        /\ frame[t].book.inplay /\ frame[t].book.status = "OPEN"
        /\ frame[t].book.available_to_lay # <<>>

\* C5: when the hedge for the clamped target stake exceeds the lay size on
\* offer, the back bet is placed at that stake scaled by size / hedge and by
\* the 5% buffer, not at the clamped size, and the hedge for the stake placed
\* fits the lay size on offer.
C5_StakeFitsDepth ==
    \A t \in Threads :
        LET f == frame[t]
            tr == f.trace
        IN  \A i \in DOMAIN tr :
                IsCall(tr[i], "place_bet") =>
                    LET clamped == ClampStake(f.ao_min_amount, f.ao_max_amount)
                        needed == _calc_lay_stake(clamped, f.live_pin_price, f.live_bf_lay)
                        placed == tr[i].row.ao_stake
                    IN  RLt(f.bf_lay_size, needed) =>
                            /\ placed =
                                 RMul(RMul(clamped, RDiv(f.bf_lay_size, needed)), DEPTH_BUFFER)
                            /\ placed # clamped
                            /\ RLe(_calc_lay_stake(placed, f.live_pin_price, f.live_bf_lay),
                                   f.bf_lay_size)

\* C6, as claimed: on every path that ends the saga the _log_execution call
\* comes before the notification of the final result.
C6_LogBeforeNotify ==
    \A t \in Threads :
        Ended(t) =>
            LET tr == frame[t].trace
            IN  \E i, j \in DOMAIN tr :
                    /\ i < j
                    /\ tr[i].ev = "log"
                    /\ tr[j].ev = "msg" /\ tr[j].tag \in TerminalMsgs

\* C6, amended: only the executed path logs first and then notifies; every
\* other path that ends the saga sends the notification of the final result
\* first and makes the _log_execution call right after it, as its last call.
C6_NotifyThenLogExceptExecuted ==
    \A t \in Threads :
        Ended(t) =>
            LET tr == frame[t].trace
                n == Len(tr)
            IN  /\ n >= 2
                /\ IF HasMsg(tr, "arb_executed")
                   THEN /\ tr[n - 1].ev = "log" /\ tr[n - 1].tag = "executed"
                        /\ tr[n].ev = "msg" /\ tr[n].tag = "arb_executed"
                   ELSE /\ tr[n - 1].ev = "msg" /\ tr[n - 1].tag \in AbortMsgs
                        /\ tr[n].ev = "log" /\ tr[n].tag # "executed"

C6_Witness ==
    \E t \in Threads :
        LET tr == frame[t].trace
        IN  /\ Ended(t)
            /\ tr[Len(tr)].ev = "log" /\ tr[Len(tr)].tag = "ao_timeout"
            /\ tr[Len(tr) - 1].tag = "check_manually_timeout"

\* what the invocation knows of its prices, stakes and margin when it ends
KnownOr(x, default) == IF x = Unset THEN default ELSE x

\* C7, as claimed: an invocation that ends has appended exactly one row, and
\* the row carries its status, the prices it revalidated, the stake it sized
\* (the confirmed one once there is one) and the margin it computed.
C7_OneFullRow ==
    \A t \in Threads :
        Ended(t) =>
            LET f == frame[t]
                tr == f.trace
                row == executions[Len(executions)]
            IN  /\ f.written = 1
                /\ \E i \in DOMAIN tr : tr[i].ev = "log" /\ tr[i].tag = row.status
                /\ row.ao_price = KnownOr(f.live_pin_price, row.ao_price)
                /\ row.bf_lay_price = KnownOr(f.live_bf_lay, row.bf_lay_price)
                /\ row.ao_stake = KnownOr(f.confirmed_stake, KnownOr(f.ao_stake, Zero))
                /\ row.margin_pct = KnownOr(Pct(KnownOr(f.margin, Zero)), Zero)

\* the row each terminal status is logged with
ExpectedRow(f, status) ==
    IF status = "dry_run"
    THEN [DefaultRow EXCEPT !.status = status, !.ao_price = f.ctx.pin_back,
                            !.bf_lay_price = f.ctx.bf_lay]
    ELSE IF status = "failed"
    THEN [DefaultRow EXCEPT !.status = status]
    ELSE IF status = "margin_gone"
    THEN [DefaultRow EXCEPT !.status = status, !.ao_price = f.live_pin_price,
                            !.bf_lay_price = f.live_bf_lay,
                            !.margin_pct = Pct(f.margin)]
    ELSE IF status \in {"ao_failed", "ao_error", "ao_no_ref"}
    THEN [DefaultRow EXCEPT !.status = status, !.ao_stake = f.ao_stake,
                            !.ao_price = f.live_pin_price]
    ELSE IF status \in {"ao_rejected", "ao_cancelled", "ao_void", "ao_timeout"}
    THEN [DefaultRow EXCEPT !.status = status, !.ao_ref = f.bet_ref,
                            !.ao_stake = f.ao_stake, !.ao_price = f.live_pin_price]
    ELSE [DefaultRow EXCEPT !.status = status, !.ao_ref = f.bet_ref,
                            !.bf_bet_id = f.bf_bet_id,
                            !.ao_stake = f.confirmed_stake,
                            !.ao_price = f.live_pin_price,
                            !.bf_lay_stake = f.final_lay_stake,
                            !.bf_lay_price = f.live_bf_lay,
                            !.margin_pct = Pct(f.margin),
                            !.expected_profit = f.expected_profit]

Statuses ==
    {"dry_run", "failed", "margin_gone", "ao_failed", "ao_error", "ao_no_ref",
     "ao_rejected", "ao_cancelled", "ao_void", "ao_timeout", "bf_failed",
     "executed"}

\* C7, amended: an invocation that ends has made exactly one _log_execution
\* call, which appended one row, or none when the insert failed; the row
\* always carries the status, but the lay price, lay stake, margin and profit
\* only for bf_failed and executed (margin_gone: both prices and the margin,
\* no stake), the back stake and price from the back placement on, and for
\* dry_run the originally observed prices.
C7_OneLogCallPartialRow ==
    \A t \in Threads :
        Ended(t) =>
            LET f == frame[t]
                tr == f.trace
                logs == SelectSeq(tr, LAMBDA e : e.ev = "log")
            IN  /\ Len(logs) = 1
                /\ logs[1].tag \in Statuses
                /\ [logs[1].row EXCEPT !.error_message = None]
                       = ExpectedRow(f, logs[1].tag)
                /\ f.written \in {0, 1}
                /\ f.written = 1 => executions[Len(executions)] = logs[1].row

C7_Witness ==
    \E t \in Threads :
        /\ Ended(t)
        /\ frame[t].written = 1
        /\ executions[Len(executions)].status = "ao_timeout"
        /\ executions[Len(executions)].margin_pct = Zero
        /\ frame[t].margin # Zero
        /\ executions[Len(executions)].bf_lay_price = Zero

\* C8: when the back bet is confirmed and the lay placement fails, the saga
\* ends as bf_failed, and the row and the notification both give the back
\* bet's reference, the confirmed back stake, the revalidated lay price and
\* the lay stake that hedges the confirmed stake.
C8_LayFailureEscalation ==
    \A t \in Threads :
        LET f == frame[t]
            tr == f.trace
            n == Len(tr)
            hedge == Round2(_calc_lay_stake(f.confirmed_stake, f.live_pin_price,
                                            f.live_bf_lay))
        IN  (Ended(t) /\ HasCall(tr, "place_orders") /\ f.bf_bet_id = None) =>
                /\ tr[n].ev = "log" /\ tr[n].tag = "bf_failed"
                /\ tr[n - 1].ev = "msg" /\ tr[n - 1].tag = "hedge_manually"
                /\ \A e \in {tr[n].row, tr[n - 1].row} :
                       /\ e.ao_ref = f.bet_ref /\ f.bet_ref # None
                       /\ e.ao_stake = f.confirmed_stake
                       /\ e.bf_lay_price = f.live_bf_lay
                       /\ e.bf_lay_stake = hedge
                /\ f.written = 1 => executions[Len(executions)] = tr[n].row

C8_Witness ==
    \E t \in Threads :
        LET f == frame[t]
        IN  /\ Ended(t)
            /\ f.written = 1
            /\ executions[Len(executions)].status = "bf_failed"
            /\ f.confirmed_stake # f.ao_stake

\* C9: the poll loop makes at most timeout / interval polls, and an
\* invocation whose polls brought no definitive answer ends as ao_timeout,
\* with the bet reference in the row and in the notification.
C9_PollGivesUp ==
    \A t \in Threads :
        LET f == frame[t]
            tr == f.trace
            n == Len(tr)
        IN  /\ NumCalls(tr, "get_bet_by_reference") <= VerifyTimeoutTicks
            /\ pc[t] = "verify" => NumCalls(tr, "get_bet_by_reference") <= f.elapsed
            /\ (Ended(t) /\ f.bet_ref # None /\ f.answer = "pending") =>
                   /\ f.elapsed >= VerifyTimeoutTicks
                   /\ tr[n].ev = "log" /\ tr[n].tag = "ao_timeout"
                   /\ tr[n].row.ao_ref = f.bet_ref
                   /\ tr[n - 1].tag = "check_manually_timeout"
                   /\ tr[n - 1].row.ao_ref = f.bet_ref
                   /\ ~HasCall(tr, "place_orders")

C9_Witness ==
    \E t \in Threads :
        /\ Ended(t)
        /\ NumCalls(frame[t].trace, "get_bet_by_reference") = VerifyTimeoutTicks
        /\ frame[t].answer = "pending"

\* C10: the margin is recomputed from the prices this invocation revalidated,
\* not from the observed ones, and the saga ends as margin_gone with no bet
\* placed exactly when that margin is below EXEC_MIN_MARGIN + EXEC_SLIPPAGE.
C10_MarginFromLivePrices ==
    \A t \in Threads :
        LET f == frame[t]
            tr == f.trace
            n == Len(tr)
        IN  f.margin # Unset =>
                LET live == _calc_margin(f.live_pin_price, f.live_bf_lay)
                    thin == RLt(live, RAdd(EXEC_MIN_MARGIN, EXEC_SLIPPAGE))
                IN  /\ f.margin = live
                    /\ thin =>
                           /\ Ended(t)
                           /\ tr[n].ev = "log" /\ tr[n].tag = "margin_gone"
                           /\ tr[n].row.margin_pct = Pct(live)
                           /\ ~HasCall(tr, "place_bet")
                           /\ ~HasCall(tr, "place_orders")
                    /\ ~thin =>
                           /\ ~HasMsg(tr, "margin_thin")
                           /\ \A i \in DOMAIN tr : tr[i].tag # "margin_gone"

C10_Witness ==
    \E t \in Threads :
        LET f == frame[t]
        IN  /\ Ended(t)
            /\ f.margin # Unset
            /\ RLt(Zero, f.margin)
            /\ ~RLt(_calc_margin(f.ctx.pin_back, f.ctx.bf_lay),
                    RAdd(EXEC_MIN_MARGIN, EXEC_SLIPPAGE))
            /\ executions # <<>>
            /\ executions[Len(executions)].status = "margin_gone"

\* the dry-run projection: the observed prices of the context and the
\* configured target stake
DryRunProjection(f) ==
    Msg("dry_run", [NoInfo EXCEPT !.ao_price = f.ctx.pin_back,
                                  !.bf_lay_price = f.ctx.bf_lay,
                                  !.ao_stake = EXEC_BACK_STAKE])

\* C11, as claimed: with the kill switch off an invocation makes no venue
\* call, and when it ends it has sent the dry-run projection of the
\* context's prices and the target stake and has recorded one dry_run row.
C11_DryRunRecordsOneRow ==
    \A t \in Threads :
        (~EXEC_ENABLED /\ InSaga(t)) =>
            LET f == frame[t]
            IN  /\ VenueCalls(f.trace) = <<>>
                /\ Ended(t) =>
                      /\ f.trace = <<DryRunProjection(f),
                                     LogEv(ExpectedRow(f, "dry_run"))>>
                      /\ f.written = 1
                      /\ executions[Len(executions)] = ExpectedRow(f, "dry_run")

\* C11, amended: with the kill switch off an invocation makes no venue call
\* and never leaves the kill-switch step for step 1; when it ends it has sent
\* exactly the dry-run projection (context prices, target stake) and then
\* made one _log_execution call for a dry_run row with the context prices,
\* which is recorded unless the insert fails.
C11_DryRunNoVenueCalls ==
    \A t \in Threads :
        (~EXEC_ENABLED /\ InSaga(t)) =>
            LET f == frame[t]
            IN  /\ VenueCalls(f.trace) = <<>>
                /\ pc[t] \in {"kill_switch", "release"}
                /\ pc[t] = "kill_switch" => f.trace = <<>>
                /\ Ended(t) =>
                      /\ f.trace = <<DryRunProjection(f),
                                     LogEv(ExpectedRow(f, "dry_run"))>>
                      /\ f.written \in {0, 1}
                      /\ f.written = 1 =>
                            executions[Len(executions)] = ExpectedRow(f, "dry_run")

C11_Witness ==
    \E t \in Threads :
        /\ ~EXEC_ENABLED
        /\ Ended(t)
        /\ HasMsg(frame[t].trace, "dry_run")
        /\ frame[t].ctx.pin_back = Rat(215, 100)
        /\ frame[t].written = 0

\* the notification that announces each terminal status
OutcomeMsgs(status) ==
    IF status = "dry_run" THEN {"dry_run"}
    ELSE IF status = "failed"
    THEN {"bf_error", "bf_not_found", "in_play", "bf_status", "runner_inactive",
          "no_lay", "ao_unavailable", "ao_info_error", "ao_info_failed",
          "ao_price_invalid"}
    ELSE IF status = "margin_gone" THEN {"margin_thin"}
    ELSE IF status = "ao_failed" THEN {"ao_place_failed"}
    ELSE IF status = "ao_error" THEN {"ao_place_error"}
    ELSE IF status = "ao_no_ref" THEN {"check_manually_no_ref"}
    ELSE IF status \in {"ao_rejected", "ao_cancelled", "ao_void"} THEN {status}
    ELSE IF status = "ao_timeout" THEN {"check_manually_timeout"}
    ELSE IF status = "bf_failed" THEN {"hedge_manually"}
    ELSE IF status = "executed" THEN {"arb_executed"}
    ELSE {}

TerminalNotifications(tr) ==
    SelectSeq(tr, LAMBDA e : e.ev = "msg" /\ e.tag \in TerminalMsgs)

\* C17: an invocation that has ended with any terminal status has sent
\* exactly one notification announcing a final result, the one of that
\* status; an invocation still in progress has sent none.
C17_OneTerminalNotification ==
    \A t \in Threads :
        InSaga(t) =>
            LET tr == frame[t].trace
                logs == SelectSeq(tr, LAMBDA e : e.ev = "log")
                finals == TerminalNotifications(tr)
            IN  IF Ended(t)
                THEN /\ Len(logs) = 1
                     /\ logs[1].tag \in Statuses
                     /\ Len(finals) = 1
                     /\ finals[1].tag \in OutcomeMsgs(logs[1].tag)
                ELSE finals = <<>> /\ logs = <<>>

C17_Witness ==
    \E t \in Threads :
        LET tr == frame[t].trace
        IN  /\ Ended(t)
            /\ tr[Len(tr)].ev = "msg" /\ tr[Len(tr)].tag = "arb_executed"
            /\ Len(SelectSeq(tr, LAMBDA e : e.ev = "msg")) > 1
            /\ Len(TerminalNotifications(tr)) = 1

\* the outcomes that may leave an unhedged or unknown position
AmbiguousStatuses == {"ao_no_ref", "ao_timeout", "bf_failed"}

\* C18, as claimed: when the insert of an ambiguous-exposure row (ao_no_ref,
\* ao_timeout or bf_failed) fails, the invocation sends the operator one more
\* notification after the failed _log_execution call.
C18_LogFailureEscalated ==
    \A t \in Threads :
        LET tr == frame[t].trace
        IN  (/\ Ended(t)
             /\ frame[t].written = 0
             /\ \E i \in DOMAIN tr :
                    tr[i].ev = "log" /\ tr[i].tag \in AmbiguousStatuses)
            => \E i, j \in DOMAIN tr :
                    /\ tr[i].ev = "log"
                    /\ j > i
                    /\ tr[j].ev = "msg"

\* a step that is one call of run_arb_scan
IsCycle == cycle'.n = cycle.n + 1

\* C12, as claimed: a cycle whose feed query raised leaves every opportunity
\* that was open before it open, with the same first_seen and peak.
C12_FeedErrorKeepsOpen ==
    [][(IsCycle /\ cycle'.feed_error) =>
          \A k \in DOMAIN _open_arbs :
              /\ k \in DOMAIN _open_arbs'
              /\ _open_arbs'[k].first_seen = _open_arbs[k].first_seen
              /\ _open_arbs'[k].peak_margin = _open_arbs[k].peak_margin]_vars

\* the margin the latest scan found for key k
ScannedMargin(c, k) ==
    LET i == CHOOSE j \in DOMAIN c.arbs : c.arbs[j].id = k
    IN  c.arbs[i].margin_pct

\* C13: after every cycle each open opportunity is in the scan result and its
\* peak is at least the margin of that cycle; and if it was open before the
\* cycle it is the same opportunity (same first_seen) and its peak has not
\* decreased.
C13_PeakMonotone ==
    [][IsCycle =>
          \A k \in DOMAIN _open_arbs' :
              /\ k \in Ids(cycle'.arbs)
              /\ RLe(ScannedMargin(cycle', k), _open_arbs'[k].peak_margin)
              /\ k \in DOMAIN _open_arbs =>
                    /\ _open_arbs'[k].first_seen = _open_arbs[k].first_seen
                    /\ RLe(_open_arbs[k].peak_margin, _open_arbs'[k].peak_margin)]_vars

C13_Witness ==
    \E k \in DOMAIN _open_arbs :
        /\ k \in Ids(cycle.arbs)
        /\ _open_arbs[k].first_seen < cycle.now
        /\ RLt(ScannedMargin(cycle, k), _open_arbs[k].peak_margin)
        /\ _open_arbs[k].peak_margin = Rat(3714, 1000)

\* the rows of key k that a step has just closed
JustClosed(k) ==
    {i \in DOMAIN arb_log :
        /\ arb_log[i].market_feed_id = Str(k)
        /\ arb_log[i].gone_at = NULL
        /\ arb_log'[i].gone_at # NULL}

\* C14, as claimed: the row of an opportunity that a cycle closes records the
\* time from its first_seen to its last_seen (the last cycle that observed
\* it) as the duration, and the opportunity's peak, which is the largest
\* margin observed (C13), as the peak margin.
C14_DurationToLastSeen ==
    [][IsCycle =>
          \A k \in cycle'.closed : \A i \in JustClosed(k) :
              /\ arb_log'[i].duration_seconds
                    = Duration(arb_log'[i].last_seen, arb_log'[i].first_seen)
              /\ arb_log'[i].peak_margin_pct = _open_arbs[k].peak_margin]_vars

\* key k has a closed opportunity on record and none open
WasClosed(k) ==
    /\ k \notin DOMAIN _open_arbs
    /\ \E i \in DOMAIN arb_log :
          arb_log[i].market_feed_id = Str(k) /\ arb_log[i].gone_at # NULL

\* the row a newly detected opportunity is logged with
FreshRow(k) ==
    [market_feed_id |-> Str(k), margin_pct |-> ScannedMargin(cycle', k),
     volume |-> (CHOOSE arb \in {cycle'.arbs[i] : i \in DOMAIN cycle'.arbs} :
                     arb.id = k).volume,
     first_seen |-> cycle'.now, last_seen |-> cycle'.now, gone_at |-> NULL,
     duration_seconds |-> NULL, peak_margin_pct |-> ScannedMargin(cycle', k)]

RowsOf(log, k) == {i \in DOMAIN log : log[i].market_feed_id = Str(k)}

ClosedRowsFrozen ==
    \A i \in DOMAIN arb_log :
        arb_log[i].gone_at # NULL => (i \in DOMAIN arb_log' /\ arb_log'[i] = arb_log[i])

\* C15, as claimed: when a key with a closed opportunity is scanned again, a
\* fresh opportunity is opened with first_seen the time of this cycle and
\* peak the margin of this cycle, a new row is inserted for it, and no closed
\* row changes.
C15_ReappearanceInsertsRow ==
    [][IsCycle =>
          /\ ClosedRowsFrozen
          /\ \A k \in Ids(cycle'.arbs) :
                WasClosed(k) =>
                    /\ _open_arbs'[k].first_seen = cycle'.now
                    /\ _open_arbs'[k].peak_margin = ScannedMargin(cycle', k)
                    /\ \E i \in RowsOf(arb_log', k) \ RowsOf(arb_log, k) :
                          arb_log'[i] = FreshRow(k)]_vars

\* C15, amended: as claimed, except that the new row is inserted only when
\* the write succeeds; when it raises, the fresh opportunity exists in memory
\* only and the key gets no new row.
C15_ClosedIsTerminal ==
    [][IsCycle =>
          /\ ClosedRowsFrozen
          /\ \A k \in Ids(cycle'.arbs) :
                WasClosed(k) =>
                    /\ _open_arbs'[k].first_seen = cycle'.now
                    /\ _open_arbs'[k].peak_margin = ScannedMargin(cycle', k)
                    /\ IF k \in cycle'.written
                       THEN \E i \in RowsOf(arb_log', k) \ RowsOf(arb_log, k) :
                               /\ arb_log'[i] = FreshRow(k)
                               /\ RowsOf(arb_log', k) = RowsOf(arb_log, k) \cup {i}
                       ELSE RowsOf(arb_log', k) = RowsOf(arb_log, k)]_vars

C15_Witness ==
    \E k \in DOMAIN _open_arbs :
        /\ _open_arbs[k].first_seen = cycle.now
        /\ k \in cycle.written
        /\ \E i, j \in RowsOf(arb_log, k) :
              /\ i < j
              /\ arb_log[i].gone_at # NULL /\ arb_log[i].gone_at < cycle.now
              /\ arb_log[j].gone_at = NULL /\ arb_log[j].first_seen = cycle.now

\* C16, as claimed: over any sequence of cycles and restarts, no day's report
\* is sent twice.
C16_OneReportPerDay ==
    \A i, j \in DOMAIN reports : i # j => reports[i] # reports[j]

\* C19, as claimed (the recovery part): after a cycle whose write for a key
\* succeeded, the table agrees with memory for that key: an open opportunity
\* has an open row carrying its current peak, and a key closed in that cycle
\* has no open row left.
C19_SuccessfulWriteRecovers ==
    \A k \in cycle.written :
        IF k \in DOMAIN _open_arbs
        THEN \E i \in RowsOf(arb_log, k) :
                /\ arb_log[i].gone_at = NULL
                /\ arb_log[i].peak_margin_pct = _open_arbs[k].peak_margin
        ELSE \A i \in RowsOf(arb_log, k) : arb_log[i].gone_at # NULL

RAbs(a) == <<Abs(a[1]), a[2]>>

\* the two outcomes of holding both legs: the back bet wins (its winnings
\* minus the lay liability) or loses (the lay stake net of commission minus
\* the back stake)
ProfitIfBackWins(c) ==
    RSub(RMul(c.back_stake, RSub(c.p_b, One)), RMul(c.lay_stake, RSub(c.p_l, One)))
ProfitIfBackLoses(c) ==
    RSub(RMul(c.lay_stake, RSub(One, c.commission)), c.back_stake)

\* a cent, the granularity the stakes are rounded to
RoundingTolerance == Rat(1, 100)

\* C20, as claimed: with the lay stake calc_lay_stake returns, the profit is
\* the same to the cent whether the back leg wins or loses, and is
\* calc_margin times the back stake.
C20_EqualProfit ==
    calc.called =>
        /\ RLe(RAbs(RSub(ProfitIfBackWins(calc), ProfitIfBackLoses(calc))),
               RoundingTolerance)
        /\ RLe(RAbs(RSub(ProfitIfBackWins(calc), RMul(calc.margin, calc.back_stake))),
               RoundingTolerance)

\* C21: calc_margin of one price on both sides is negative for every price
\* above 1 whenever the commission rate is positive.
C21_IdenticalPricesUnprofitable ==
    (calc.called /\ calc.p_b = calc.p_l /\ RLt(One, calc.p_b)
                 /\ RLt(Zero, calc.commission)) =>
        RLt(calc.margin, Zero)

C21_Witness ==
    /\ calc.called
    /\ calc.p_b = Rat(200, 100) /\ calc.p_l = Rat(200, 100)
    /\ calc.commission = BETFAIR_COMMISSION
    /\ calc.margin = Rat(-1, 100)

AboveFloor(p) == RLt(MIN_PRICE, p)

\* C22: at one commission rate and with every price above 1.01, calc_margin
\* is strictly greater at a greater back price and strictly smaller at a
\* greater lay price.
C22_MarginMonotone ==
    (calc.called /\ AboveFloor(calc.p_b) /\ AboveFloor(calc.p_l)
                 /\ AboveFloor(calc.p_other)) =>
        /\ RLt(calc.p_b, calc.p_other) => RLt(calc.margin, calc.margin_back_moved)
        /\ RLt(calc.p_other, calc.p_b) => RLt(calc.margin_back_moved, calc.margin)
        /\ RLt(calc.p_l, calc.p_other) => RLt(calc.margin_lay_moved, calc.margin)
        /\ RLt(calc.p_other, calc.p_l) => RLt(calc.margin, calc.margin_lay_moved)

C22_Witness ==
    /\ calc.called
    /\ calc.commission = BETFAIR_COMMISSION
    /\ calc.p_b = Rat(210, 100) /\ calc.p_l = Rat(200, 100)
    /\ calc.p_other = Rat(215, 100)
    /\ RLt(calc.margin, calc.margin_back_moved)
    /\ RLt(calc.margin_lay_moved, calc.margin)

\* what the claim asks of a row, in its own words
Qualifies(row) ==
    /\ RLt(MIN_PRICE, row.price_pinnacle) /\ RLt(MIN_PRICE, row.lay_price)
    /\ row.last_updated \notin {NULL, Unparseable}
    /\ row.last_updated <= ARB_MAX_AGE_SECONDS
    /\ RLe(ARB_MIN_MARGIN, calc_margin(row.price_pinnacle, row.lay_price))
    /\ RLe(calc_margin(row.price_pinnacle, row.lay_price), ARB_MAX_MARGIN)

\* C23: scan_arbs returns one entry for each feed row whose two prices exceed
\* 1.01, whose last_updated is present, parseable and at most
\* ARB_MAX_AGE_SECONDS old and whose margin lies in
\* [ARB_MIN_MARGIN, ARB_MAX_MARGIN], and no other entry; the entries carry
\* the row's prices and come in descending order of margin_pct.
C23_ScanFiltersAndSorts ==
    feed.called =>
        LET rows == feed.response.data
            arbs == feed.arbs
            qualifying == {i \in DOMAIN rows : Qualifies(rows[i])}
        IN  /\ Len(arbs) = Cardinality(qualifying)
            /\ {arbs[j].id : j \in DOMAIN arbs} = {rows[i].id : i \in qualifying}
            /\ \A j \in DOMAIN arbs :
                   \E i \in qualifying :
                       /\ arbs[j].id = rows[i].id
                       /\ arbs[j].pin_back = rows[i].price_pinnacle
                       /\ arbs[j].bf_lay = rows[i].lay_price
                       /\ arbs[j].margin_pct
                              = Round3(Pct(calc_margin(rows[i].price_pinnacle,
                                                       rows[i].lay_price)))
            /\ \A j, k \in DOMAIN arbs :
                   j < k => RLe(arbs[k].margin_pct, arbs[j].margin_pct)

\* the smaller margin comes first in the feed and last in the result
C23_Witness ==
    /\ feed.called
    /\ Len(feed.response.data) = 2
    /\ Len(feed.arbs) = 2
    /\ feed.arbs[1].id = 2 /\ feed.arbs[2].id = 1
    /\ feed.response.data[1].last_updated = ARB_MAX_AGE_SECONDS
    /\ RLt(feed.arbs[2].margin_pct, feed.arbs[1].margin_pct)

\* ALERT_COOLDOWN_SECONDS of telegram_alerts.py, the one alert cooldown the
\* source configures (600 s), in minutes
AlertCooldownMinutes == 10

\* the arb_log row of an opportunity that was alerted when it opened: the
\* alert test is made on the values the INSERT of the same cycle stores
AlertedRow(row) ==
    /\ RLe(Pct(ARB_ALERT_MARGIN), row.margin_pct)
    /\ row.volume >= ARB_MIN_VOLUME

\* C24, as claimed: a cycle sends no alert for a key that was alerted less
\* than the alert cooldown before.
C24_AlertCooldown ==
    [][IsCycle =>
          \A k \in cycle'.alerts :
              \A i \in RowsOf(arb_log, k) :
                  AlertedRow(arb_log[i]) =>
                      cycle'.now - arb_log[i].first_seen >= AlertCooldownMinutes]_vars

\* C25: an invocation whose back placement was accepted without a usable
\* reference ends with the manual-check notification and then the ao_no_ref
\* row, the back placement being its last venue call: no status poll and no
\* lay order.
C25_NoRefEscalates ==
    \A t \in Threads :
        LET f == frame[t]
            tr == f.trace
            n == Len(tr)
        IN  (Ended(t) /\ f.placed = "accepted_no_ref") =>
                /\ tr[n].ev = "log" /\ tr[n].tag = "ao_no_ref"
                /\ tr[n].row.ao_ref = None
                /\ tr[n - 1].ev = "msg" /\ tr[n - 1].tag = "check_manually_no_ref"
                /\ IsCall(tr[n - 2], "place_bet")
                /\ NumCalls(tr, "get_bet_by_reference") = 0
                /\ NumCalls(tr, "place_orders") = 0
                /\ f.written = 1 => executions[Len(executions)].status = "ao_no_ref"

C25_Witness ==
    \E t \in Threads :
        /\ Ended(t)
        /\ frame[t].placed = "accepted_no_ref"
        /\ frame[t].written = 1
        /\ executions[Len(executions)].status = "ao_no_ref"

\* the saga's venue calls, numbered in the order of its phases
PhaseOf(name) ==
    CASE name = "list_market_book" -> 1
      [] name = "get_placement_info" -> 2
      [] name = "place_bet" -> 3
      [] name = "get_bet_by_reference" -> 4
      [] name = "place_orders" -> 5
PollPhase == PhaseOf("get_bet_by_reference")

\* C26: the venue calls of an invocation start with the lay-market
\* revalidation and each next one is of the next phase, only the status poll
\* repeating; a call is made only after the phases before it succeeded (a
\* good book, a margin that clears the threshold, an accepted placement with
\* a reference, a confirming poll); and no venue call follows the row or the
\* notification that gives the terminal status.
C26_VenueCallOrder ==
    \A t \in Threads :
        LET f == frame[t]
            tr == f.trace
            calls == VenueCalls(tr)
            phase(i) == PhaseOf(calls[i].tag)
        IN  /\ calls # <<>> => phase(1) = 1
            /\ \A i \in 2..Len(calls) :
                   \/ phase(i) = phase(i - 1) + 1
                   \/ phase(i) = PollPhase /\ phase(i - 1) = PollPhase
            /\ HasCall(tr, "get_placement_info") => (f.book # NoBook /\ ~BadBook(f.book))
            /\ HasCall(tr, "place_bet") =>
                   /\ f.live_pin_price # Unset
                   /\ ~RLt(_calc_margin(f.live_pin_price, f.live_bf_lay),
                           RAdd(EXEC_MIN_MARGIN, EXEC_SLIPPAGE))
            /\ HasCall(tr, "get_bet_by_reference") =>
                   (f.placed = "accepted" /\ f.bet_ref # None)
            /\ HasCall(tr, "place_orders") => f.answer = "confirmed"
            /\ \A i, j \in DOMAIN tr :
                   (i < j /\ (tr[i].ev = "log" \/ (tr[i].ev = "msg" /\ tr[i].tag \in TerminalMsgs)))
                       => tr[j].ev # "call"

C26_Witness ==
    \E t \in Threads :
        LET calls == VenueCalls(frame[t].trace)
        IN  /\ Ended(t)
            /\ Len(calls) = 6
            /\ calls[4].tag = "get_bet_by_reference"
            /\ calls[5].tag = "get_bet_by_reference"
            /\ calls[6].tag = "place_orders"
            /\ frame[t].bf_bet_id # None

HoldsLock(t) == InSaga(t) \/ pc[t] = "unwind"

\* C27: an invocation that acquired the execution lock leaves execute_arb,
\* by a return or with an exception, and the lock is free when it has left;
\* the lock is held only while an invocation is between its acquisition and
\* its release.
C27_LockReleased ==
    /\ [](_exec_lock <=> \E t \in Threads : HoldsLock(t))
    /\ \A t \in Threads : HoldsLock(t) ~> (pc[t] = "idle" /\ ~_exec_lock)

\* an invocation is leaving with an exception, the lock still held and
\* another invocation just rejected as busy
C27_Witness ==
    \E t, u \in Threads :
        /\ pc[t] = "unwind" /\ _exec_lock
        /\ pc[u] = "busy"

\* C28: the lay order is placed at the best lay price of the book this
\* invocation fetched in its revalidation, and its size is the hedge stake,
\* rounded to the cent, of the stake the confirming poll reported, or of the
\* requested stake when that poll reported none.
C28_LaySizedFromConfirmedStake ==
    \A t \in Threads :
        LET f == frame[t]
            tr == f.trace
        IN  \A i \in DOMAIN tr :
                IsCall(tr[i], "place_orders") =>
                    LET stake == IF f.reported_stake # Zero THEN f.reported_stake
                                 ELSE f.ao_stake
                    IN  /\ f.answer = "confirmed"
                        /\ tr[i].row.bf_lay_price = f.book.available_to_lay[1].price
                        /\ tr[i].row.bf_lay_stake =
                              Round2(_calc_lay_stake(stake, f.live_pin_price,
                                                     f.book.available_to_lay[1].price))

\* the poll reported a stake other than the requested one, and the book's
\* lay price is not the observed one
C28_Witness ==
    \E t \in Threads :
        LET f == frame[t]
        IN  /\ Ended(t)
            /\ HasCall(f.trace, "place_orders")
            /\ f.bf_bet_id # None
            /\ f.reported_stake # Zero /\ f.reported_stake # f.ao_stake
            /\ f.book.available_to_lay[1].price # f.ctx.bf_lay
            /\ f.final_lay_stake # f.needed_lay_stake

\* C29: after a run_arb_scan cycle the open opportunities are the keys of
\* the cycle's scan result: an open key is closed in the cycle exactly when
\* the scan result lacks it, and the keys the scan result holds are open.
C29_OpenSetIsScanResult ==
    [][IsCycle =>
          LET scanned == Ids(cycle'.arbs)
          IN  /\ DOMAIN _open_arbs' = scanned
              /\ \A k \in DOMAIN _open_arbs :
                     (k \notin DOMAIN _open_arbs') <=> (k \notin scanned)
              /\ cycle'.closed = DOMAIN _open_arbs \ scanned]_vars

\* one key was closed by a cycle that kept another open
C29_Witness ==
    /\ cycle.closed = {2}
    /\ DOMAIN _open_arbs = {1}
    /\ _open_arbs[1].first_seen < cycle.now
    /\ ~cycle.feed_error

ScannedArb(c, k) == CHOOSE arb \in {c.arbs[i] : i \in DOMAIN c.arbs} : arb.id = k

InReportWindow(now) == Hour(now) = 0 /\ Minute(now) < ReportWindowMinutes

\* C31: a report is only ever emitted by a poll cycle that runs in the first
\* five minutes after midnight; a cycle that runs later in the day emits
\* nothing and leaves the watermark alone, also when the report of that day
\* has not been sent.
C31_ReportOnlyInWindow ==
    [][/\ reports' # reports => IsCycle /\ InReportWindow(cycle'.now)
       /\ IsCycle /\ ~InReportWindow(cycle'.now)
            => /\ ~cycle'.report
               /\ reports' = reports
               /\ _last_daily_report' = _last_daily_report]_vars

\* a cycle ran after the window with today's report still unsent, and sent
\* nothing
C31_Witness ==
    /\ cycle.n > 0
    /\ cycle.now > 0
    /\ ~InReportWindow(cycle.now)
    /\ _last_daily_report < Midnight(cycle.now)
    /\ ~cycle.report

OpenRowsOf(log, k) == {i \in RowsOf(log, k) : log[i].gone_at = NULL}

\* C35, as claimed: the log holds at most one row with gone_at unset per
\* outcome key at any time, over any sequence of poll cycles, failed log
\* writes and process restarts.
C35_OneOpenRowPerKey ==
    \A k \in Keys : Cardinality(OpenRowsOf(arb_log, k)) <= 1

Within(stake, min_amount, max_amount) ==
    RLe(min_amount, stake) /\ RLe(stake, max_amount)

\* C33: whenever the minimum stake the back venue reported does not exceed
\* its maximum, the stake of the place_bet call lies between the two, and so
\* does the clamped target it was scaled down from.
C33_StakeWithinLimits ==
    \A t \in Threads :
        LET f == frame[t]
        IN  \A i \in DOMAIN f.trace :
                (IsCall(f.trace[i], "place_bet")
                    /\ RLe(f.ao_min_amount, f.ao_max_amount)) =>
                    /\ Within(ClampStake(f.ao_min_amount, f.ao_max_amount),
                              f.ao_min_amount, f.ao_max_amount)
                    /\ Within(f.trace[i].row.ao_stake,
                              f.ao_min_amount, f.ao_max_amount)

\* a bet placed at a stake scaled down from a target that was clamped to the
\* venue's maximum
C33_Witness ==
    \E t \in Threads :
        LET f == frame[t]
        IN  /\ \E i \in DOMAIN f.trace :
                  /\ IsCall(f.trace[i], "place_bet")
                  /\ RLt(f.trace[i].row.ao_stake,
                         ClampStake(f.ao_min_amount, f.ao_max_amount))
            /\ RLt(f.ao_max_amount, EXEC_BACK_STAKE)
            /\ RLt(f.ao_min_amount, f.ao_stake)

\* thread t makes one poll of the confirmation loop in this step
Polled(t) ==
    /\ pc[t] = "verify"
    /\ Len(frame'[t].trace) > Len(frame[t].trace)
    /\ IsCall(frame'[t].trace[Len(frame[t].trace) + 1], "get_bet_by_reference")

\* C38: a poll of the confirmation loop that raises, answers a non-zero
\* code, answers no bets or answers a status of neither class does not end
\* the saga: it sends nothing, logs nothing, keeps the lock and leaves the
\* invocation in the loop with at least one sleep added to the time waited;
\* the loop is left only on a confirmed or rejected answer or on the timeout.
C38_PendingPollContinues ==
    [][\A t \in Threads :
          /\ (Polled(t) /\ frame'[t].answer = "pending") =>
                /\ pc'[t] = "verify"
                /\ frame'[t].elapsed > frame[t].elapsed
                /\ Len(frame'[t].trace) = Len(frame[t].trace) + 1
                /\ executions' = executions
                /\ _exec_lock' /\ _exec_lock
                /\ ~frame'[t].ao_confirmed
          /\ (pc[t] = "verify" /\ pc'[t] \notin {"verify", "unwind"}) =>
                \/ frame'[t].answer \in {"confirmed", "rejected"}
                \/ ~(frame[t].elapsed < VerifyTimeoutTicks)]_vars

\* the loop has polled twice without a definitive answer and goes on
C38_Witness ==
    \E t \in Threads :
        /\ pc[t] = "verify"
        /\ frame[t].answer = "pending"
        /\ NumCalls(frame[t].trace, "get_bet_by_reference") = 2
        /\ frame[t].elapsed < VerifyTimeoutTicks

\* thread t is rejected as busy, or returns from that rejection, in this step
BusyStep(t) ==
    \/ pc[t] # "busy" /\ pc'[t] = "busy"
    \/ pc[t] = "busy" /\ pc'[t] # "busy"

\* C39: a busy rejection changes nothing but the notifications: the step
\* that rejects an invocation and the step that returns from it append no
\* execution-log row, leave the lock as it is (held, at the rejection), and
\* leave every other invocation's position and locals untouched; the
\* rejected invocation's only event is the busy message.
C39_BusyChangesNothing ==
    [][\A t \in Threads :
          BusyStep(t) =>
              /\ executions' = executions
              /\ _exec_lock' = _exec_lock
              /\ EXEC_ENABLED' = EXEC_ENABLED
              /\ \A u \in Threads \ {t} : pc'[u] = pc[u] /\ frame'[u] = frame[u]
              /\ pc'[t] = "busy" =>
                    /\ _exec_lock
                    /\ frame'[t].trace = <<Msg("busy", NoInfo)>>
                    /\ \E u \in Threads \ {t} : HoldsLock(u)]_vars

\* an invocation ran to the end of the saga and logged its row while another
\* was rejected as busy
C39_Witness ==
    \E t, u \in Threads :
        /\ pc[t] = "release"
        /\ HasMsg(frame[t].trace, "arb_executed")
        /\ frame[t].written = 1
        /\ pc[u] = "busy"
        /\ _exec_lock

\* a call of _maybe_alert
IsSteamCall == steam'.n = steam.n + 1

\* C34: of a call of _maybe_alert for a pair that has a dedup entry: inside
\* the cooldown, a shift below the last alerted shift plus the re-alert
\* increment sends nothing and leaves the dedup state as it is, a shift at
\* or above it alerts; once the cooldown has expired any shift alerts; and
\* whenever an alert is attempted the pair's entry becomes the time and the
\* shift of this call, the send having succeeded or not, the entries of the
\* other pairs staying as they are.
C34_SteamDedup ==
    [][IsSteamCall =>
          LET key == steam'.key
              shift == steam'.shift
              now == steam'.now
          IN  /\ key \in DOMAIN _last_alerted =>
                    LET last == _last_alerted[key]
                    IN  IF now - last.ts < STEAM_COOLDOWN
                        THEN IF shift < last.shift_pp + STEAM_REALERT_INCREMENT
                             THEN /\ ~steam'.attempted
                                  /\ ~steam'.sent
                                  /\ _last_alerted' = _last_alerted
                             ELSE steam'.attempted
                        ELSE steam'.attempted
              /\ key \notin DOMAIN _last_alerted => steam'.attempted
              /\ steam'.attempted =>
                    _last_alerted' =
                        Put(_last_alerted, key, [ts |-> now, shift_pp |-> shift])]_vars

\* inside the cooldown of an alert, a shift short of the increment was
\* suppressed and then a larger one alerted again, its send failing
C34_Witness ==
    \E key \in DOMAIN _last_alerted :
        /\ steam.n = 3
        /\ steam.key = key
        /\ steam.attempted /\ ~steam.sent
        /\ steam.now < STEAM_COOLDOWN
        /\ steam.shift = STEAM_THRESHOLD + STEAM_REALERT_INCREMENT
        /\ _last_alerted[key] = [ts |-> steam.now, shift_pp |-> steam.shift]
        /\ DOMAIN _last_alerted = {key}

\* C36: every registration of a pending arb has triggered execute_arb at
\* most once, however often its button was pressed; no call was made for a
\* press handled more than ARB_TTL after the registration; and a
\* registration that a press has consumed is pending no more, whether the
\* execution ran to the end, aborted, was rejected as busy or raised.
C36_ExecuteAtMostOnce ==
    /\ \A i, j \in DOMAIN tg.launched :
          tg.launched[i].context = tg.launched[j].context => i = j
    /\ \A i \in DOMAIN tg.launched :
          /\ tg.launched[i].at - tg.launched[i].registered_at <= ARB_TTL
          /\ \A k \in DOMAIN _pending_arbs :
                _pending_arbs[k].context # tg.launched[i].context
    /\ (tg.last.kind = "tap"
            /\ tg.last.outcome \in {"executed", "aborted", "busy", "raised", "expired"})
          => tg.last.arb_id \notin DOMAIN _pending_arbs

\* the button of an arb whose execution was rejected as busy is pressed
\* again inside the time to live, and nothing is pending for it
C36_Witness ==
    /\ Len(tg.launched) = 1
    /\ tg.launched[1].outcome = "busy"
    /\ tg.launched[1].arb_id = "a"
    /\ tg.last.kind = "tap"
    /\ tg.last.chat_id = TELEGRAM_CHAT_ID
    /\ tg.last.cmd = "exec_arb"
    /\ tg.last.arb_id = "a"
    /\ tg.last.outcome = "expired or already processed"
    /\ tg.now - tg.launched[1].registered_at <= ARB_TTL
    /\ "a" \notin DOMAIN _pending_arbs

\* a callback query is handled in this step
IsTap == tg'.n = tg.n + 1 /\ tg'.last.kind = "tap"

\* C37: a callback query from a chat other than the configured operator
\* chat, or with no chat, triggers no execute_arb and leaves every pending
\* arb as it is.
C37_ForeignChatIgnored ==
    [][(IsTap /\ tg'.last.chat_id # TELEGRAM_CHAT_ID) =>
          /\ tg'.launched = tg.launched
          /\ _pending_arbs' = _pending_arbs
          /\ tg'.last.outcome = "unauthorized"]_vars

\* the execute button of a pending arb was pressed from another chat inside
\* the time to live, and the arb is still pending
C37_Witness ==
    /\ tg.last.kind = "tap"
    /\ tg.last.cmd = "exec_arb"
    /\ tg.last.chat_id = TELEGRAM_CHAT_ID + 1
    /\ tg.last.outcome = "unauthorized"
    /\ tg.last.arb_id \in DOMAIN _pending_arbs
    /\ ~PendingExpired(tg.now, _pending_arbs[tg.last.arb_id].registered_at)
    /\ tg.launched = <<>>

====
